---- MODULE Spec2Model ----
(***************************************************************************)
(* Model of the `wired` persistence library: the block storage engine      *)
(* (block_storage/, storage/), the containers built on it (database/) and  *)
(* the Mmap-backed linked list (backend/, model/).                         *)
(*                                                                         *)
(* The mapped file is modelled byte by byte, as the function from the      *)
(* offsets that hold a non-zero byte to that byte (every other byte of the *)
(* mapping is 0, as in a fresh file).  Structures are written and read     *)
(* with bincode's fixed-width little-endian layout.                        *)
(***************************************************************************)
EXTENDS Integers, Sequences, FiniteSets, TLC

VARIABLES
    backend,    \* block_storage::backend::Backend {size, mapped_file, header}
    header,     \* the open container's in-memory header (Stack / Queue / KeyValue)
    lookup,     \* KeyValue::lookup, key -> value index
    result,     \* what the last call returned to the caller
    sibling,    \* the file at path + ".tmp" that LinkedList::compact opens
    shadow      \* reference value the caller expects (history of the calls made)

vars == <<backend, header, lookup, result, sibling, shadow>>

----------------------------------------------------------------------------
(* Bounds of the model (not program constants).                            *)

\* largest number of frames the frame grid may grow to in a run
MaxFrames == 4
\* largest number of elements a container is filled to
MaxLen == 3
\* largest number of live records the block storage is driven to
MaxLive == 2
\* largest number of calls made on the block storage in a run
MaxCalls == 5
\* largest number of writes made to an Mmap in a run
MaxWrites == 3
\* number of distinct keys a KeyValue is driven with
MaxKeys == 2

----------------------------------------------------------------------------
(* Program constants.                                                      *)

\* storage/frames.rs: const FRAME_SIZE
FRAME_SIZE == 1024
\* std::mem::size_of::<Frame>(): usize, usize, bool, usize, padded to 8
FrameHeaderSize == 32
\* bincode's encoding of a Frame: 8 + 8 + 1 + 8 bytes
FrameEncodedSize == 25
\* std::mem::size_of::<Header>() of the block storage: two usize
HeaderSize == 16
\* page_size::get() on the platforms the library is built for
PageSize == 4096

\* integers at or above Huge are not told apart (they lie far outside every
\* mapping the model reaches)
Huge == 256 * 256 * 256

----------------------------------------------------------------------------
(* Bytes and bincode's fixed-width little-endian integers.                 *)

Min(a, b) == IF a < b THEN a ELSE b

Byte(mf, o) == IF o \in DOMAIN mf THEN mf[o] ELSE 0

\* the bytes of mapped_file[start .. start + n)
Slice(mf, start, n) == [i \in 1..n |-> Byte(mf, start + i - 1)]

\* (&mut mapped_file[start ..]).write_all(bytes)
WriteAll(mf, start, bytes) ==
    LET rng  == start .. (start + Len(bytes) - 1)
        nz   == {o \in rng : bytes[o - start + 1] # 0}
        keep == (DOMAIN mf \ rng) \cup nz
    IN  [o \in keep |-> IF o \in rng THEN bytes[o - start + 1] ELSE mf[o]]

\* bincode::serialize of a usize
EncodeU64(n) ==
    IF n >= Huge THEN <<0, 0, 0, 1, 0, 0, 0, 0>>
    ELSE <<n % 256, (n \div 256) % 256, (n \div 65536) % 256, 0, 0, 0, 0, 0>>

\* bincode::deserialize of a usize from the 8 bytes bytes[at .. at + 8)
DecodeU64(bytes, at) ==
    IF \E i \in 3..7 : bytes[at + i] # 0 THEN Huge
    ELSE bytes[at] + 256 * bytes[at + 1] + 65536 * bytes[at + 2]

----------------------------------------------------------------------------
(* Results of fallible calls: st is "ok", "err" (an Err(..) return) or     *)
(* "panic" (a slice index outside the mapping); b is the backend as the    *)
(* call left it; v is the value returned on "ok".                          *)

Ok(b, v) == [st |-> "ok", b |-> b, v |-> v]
Err(b) == [st |-> "err", b |-> b, v |-> 0]
Panic(b) == [st |-> "panic", b |-> b, v |-> 0]
\* the failure r carried on to the caller, as the ? operator does
Raise(r) == [st |-> r.st, b |-> r.b, v |-> 0]

\* a path no file exists at: its length is 0 and it holds no byte
NoFile == [size |-> 0, mapped_file |-> <<>>]

----------------------------------------------------------------------------
(* storage/header.rs: the block storage header at offset 0.                *)

EncodeHeader(h) == EncodeU64(h.frame_count) \o EncodeU64(h.version)

\* Header::update
HeaderUpdate(b) ==
    [b EXCEPT !.mapped_file = WriteAll(@, 0, EncodeHeader(b.header))]

\* Backend::initialize_header: decode the bytes at 0..16, stamp version 1
InitializeHeader(mf) ==
    LET bytes == Slice(mf, 0, HeaderSize)
        h == [frame_count |-> DecodeU64(bytes, 1), version |-> DecodeU64(bytes, 9)]
        h1 == IF h.version = 0 THEN [h EXCEPT !.version = 1] ELSE h
    IN  [header |-> h1,
         mapped_file |-> IF h.version = 0 THEN WriteAll(mf, 0, EncodeHeader(h1)) ELSE mf]

----------------------------------------------------------------------------
(* storage/file_mapping.rs                                                 *)

\* ensure_minimum_file_size + create_file_mapping: the mapped length for a
\* file of length file_len
OpenFileSize(file_len) == IF file_len = 0 THEN PageSize ELSE file_len

\* Backend::resize_file: the file and the mapping double; the bytes stay
ResizeFile(b) == [b EXCEPT !.size = 2 * b.size]

\* Backend::new on a file that holds mapped_file and has length file_len
BackendNew(mf, file_len) ==
    LET ih == InitializeHeader(mf)
    IN  [size |-> OpenFileSize(file_len),
         mapped_file |-> ih.mapped_file,
         header |-> ih.header]

----------------------------------------------------------------------------
(* storage/frames.rs                                                       *)

Capacity == FRAME_SIZE - FrameHeaderSize

EncodeFrame(f) ==
    EncodeU64(f.position) \o EncodeU64(f.body_size)
        \o <<IF f.deleted THEN 1 ELSE 0>> \o EncodeU64(f.next)

\* Backend::read_frame
ReadFrame(b, position) ==
    IF position + FrameHeaderSize > b.size THEN Panic(b)
    ELSE LET bytes == Slice(b.mapped_file, position, FrameEncodedSize)
         IN  IF bytes[17] > 1 THEN Err(b)
             ELSE Ok(b, [position  |-> DecodeU64(bytes, 1),
                         body_size |-> DecodeU64(bytes, 9),
                         deleted   |-> bytes[17] = 1,
                         next      |-> DecodeU64(bytes, 18)])

\* Backend::update_frame: the frame is written at frame.position
UpdateFrame(b, frame) ==
    IF frame.position + FrameHeaderSize > b.size THEN Panic(b)
    ELSE Ok([b EXCEPT !.mapped_file =
                 WriteAll(@, frame.position, EncodeFrame(frame))], 0)

\* Backend::create_frame
CreateFrame(b, position) ==
    LET Then(w) == IF w.st # "ok" THEN Raise(w) ELSE ReadFrame(w.b, position)
    IN  Then(UpdateFrame(b, [position |-> position, body_size |-> 0,
                             deleted |-> FALSE, next |-> 0]))

\* Backend::read_frame_body
ReadFrameBody(b, position) ==
    LET Then(frame) ==
            IF frame.st # "ok" THEN Raise(frame)
            ELSE IF FrameHeaderSize + position + frame.v.body_size > b.size
            THEN Panic(b)
            ELSE Ok(b, Slice(b.mapped_file, FrameHeaderSize + position,
                             frame.v.body_size))
    IN  Then(ReadFrame(b, position))

\* Backend::write_frame_body
WriteFrameBody(b, position, bytes) ==
    LET Then(frame) ==
            IF frame.st # "ok" THEN Raise(frame)
            ELSE IF frame.v.position + FrameHeaderSize + Len(bytes) > b.size
            THEN Panic(b)
            ELSE UpdateFrame(
                   [b EXCEPT !.mapped_file =
                        WriteAll(@, frame.v.position + FrameHeaderSize, bytes)],
                   [frame.v EXCEPT !.body_size = Len(bytes)])
    IN  Then(ReadFrame(b, position))

----------------------------------------------------------------------------
(* storage/backend/allocation.rs and storage/mod.rs: the allocator that    *)
(* Backend::create calls, a linear sweep for the first deleted frame.      *)

RECURSIVE ScanDeleted(_, _, _)
\* the while loop of next_free_frame_position, from `position` on; 0 when
\* no frame of the grid is deleted (0 is never a frame position)
ScanDeleted(b, position, max_position) ==
    IF ~(position < max_position) THEN Ok(b, 0)
    ELSE LET Then(frame) ==
                 IF frame.st # "ok" THEN Raise(frame)
                 ELSE IF frame.v.deleted THEN Ok(b, position)
                 ELSE ScanDeleted(b, position + FRAME_SIZE, max_position)
         IN  Then(ReadFrame(b, position))

\* a grid that hands out its next position without counting the frame
AppendFramePosition_NotCounted(b, next_free_position) == Ok(b, next_free_position)

\* next_free_frame_position when the sweep found nothing: the grid grows by
\* one frame, the header is written, and the file doubles when the new
\* frame does not fit
AppendFramePosition(b, next_free_position) ==
    LET Then(b1) ==
            Ok(IF next_free_position + FRAME_SIZE > b1.size
               THEN ResizeFile(b1) ELSE b1,
               next_free_position)
    IN  Then(HeaderUpdate([b EXCEPT !.header.frame_count = @ + 1]))

\* Backend::next_free_frame_position
NextFreeFramePosition(b) ==
    LET Then(found) ==
            IF found.st # "ok" THEN Raise(found)
            ELSE IF found.v # 0 THEN found
            ELSE AppendFramePosition(
                   b, HeaderSize + b.header.frame_count * FRAME_SIZE)
    IN  Then(ScanDeleted(b, HeaderSize, b.header.frame_count * FRAME_SIZE))

\* bytes.chunks(chunk_size): the index-th chunk, index from 0
Chunk(bytes, index) ==
    SubSeq(bytes, index * Capacity + 1, Min(Len(bytes), (index + 1) * Capacity))

ChunkCount(bytes) == (Len(bytes) + Capacity - 1) \div Capacity

\* write_bytes_starting_at: the "next" pointer of the last frame written is
\* set to the frame at position (last_position is 0 for None)
LinkLastFrame(b, last_position, position) ==
    IF last_position = 0 THEN Ok(b, 0)
    ELSE LET Then(last_frame) ==
                 IF last_frame.st # "ok" THEN Raise(last_frame)
                 ELSE UpdateFrame(last_frame.b,
                                  [last_frame.v EXCEPT !.next = position])
         IN  Then(ReadFrame(b, last_position))

\* write_bytes_starting_at: one chunk is persisted into the frame at position
WriteChunk(b, position, byte_chunk) ==
    LET Then(created) ==
            IF created.st # "ok" THEN Raise(created)
            ELSE WriteFrameBody(created.b, position, byte_chunk)
    IN  Then(CreateFrame(b, position))

RECURSIVE WriteChunks(_, _, _, _, _)
\* the for loop of write_bytes_starting_at from chunk `index` on;
\* last_position is last_frame_position (0 for None)
WriteChunks(b, start, bytes, index, last_position) ==
    IF index >= ChunkCount(bytes) THEN Ok(b, 0)
    ELSE
      LET Then(p) ==
            IF p.st # "ok" THEN Raise(p)
            ELSE
              LET Written(w) ==
                    IF w.st # "ok" THEN Raise(w)
                    ELSE
                      LET Linked(u) ==
                            IF u.st # "ok" THEN Raise(u)
                            ELSE WriteChunks(u.b, start, bytes, index + 1, p.v)
                      IN  Linked(LinkLastFrame(w.b, last_position, p.v))
              IN  Written(WriteChunk(p.b, p.v, Chunk(bytes, index)))
      IN  Then(IF index = 0 THEN Ok(b, start) ELSE NextFreeFramePosition(b))

\* Backend::write_bytes_starting_at
WriteBytesStartingAt(b, start, bytes) == WriteChunks(b, start, bytes, 0, 0)

\* Backend::create (flush changes nothing the model holds)
BackendCreate(b, bytes) ==
    LET Then(position) ==
            IF position.st # "ok" THEN Raise(position)
            ELSE LET Written(w) ==
                         IF w.st # "ok" THEN Raise(w) ELSE Ok(w.b, position.v)
                 IN  Written(WriteBytesStartingAt(position.b, position.v, bytes))
    IN  Then(NextFreeFramePosition(b))

RECURSIVE ReadChain(_, _, _, _)
\* the while loop of Backend::read; visited holds the cursors the loop has
\* been at (the mapping does not change, so a cursor met twice is a cycle:
\* the loop never ends, and the call does not return)
ReadChain(b, cursor, bytes, visited) ==
    IF cursor = 0 THEN Ok(b, bytes)
    ELSE IF cursor \in visited THEN [st |-> "hang", b |-> b, v |-> 0]
    ELSE
      LET Then(frame) ==
            IF frame.st # "ok" THEN Raise(frame)
            ELSE
              LET Extended(body) ==
                    IF body.st # "ok" THEN Raise(body)
                    ELSE ReadChain(b, frame.v.next, bytes \o body.v,
                                   visited \cup {cursor})
              IN  Extended(IF frame.v.deleted THEN Ok(b, <<>>)
                           ELSE ReadFrameBody(b, cursor))
      IN  Then(ReadFrame(b, cursor))

\* Backend::read
BackendRead(b, position) == ReadChain(b, position, <<>>, {})

RECURSIVE DeleteChain(_, _, _)
\* the while loop of Backend::delete; visited holds the cursors the loop has
\* been at, each with the mapping as it was then (the same cursor over the
\* same bytes is a cycle: the loop never ends, and the call does not return)
DeleteChain(b, cursor, visited) ==
    IF cursor = 0 THEN Ok(b, 0)
    ELSE IF <<cursor, b.mapped_file>> \in visited
    THEN [st |-> "hang", b |-> b, v |-> 0]
    ELSE
      LET Then(frame) ==
            IF frame.st # "ok" THEN Raise(frame)
            ELSE
              LET Marked(u) ==
                    IF u.st # "ok" THEN Raise(u)
                    ELSE DeleteChain(u.b, frame.v.next,
                                     visited \cup {<<cursor, b.mapped_file>>})
              IN  Marked(UpdateFrame(b, [frame.v EXCEPT !.deleted = TRUE,
                                                         !.next = 0]))
      IN  Then(ReadFrame(b, cursor))

\* Backend::delete
BackendDelete(b, position) == DeleteChain(b, position, {})

\* Backend::update
BackendUpdate(b, position, bytes) ==
    LET Then(d) ==
            IF d.st # "ok" THEN Raise(d)
            ELSE WriteBytesStartingAt(d.b, position, bytes)
    IN  Then(BackendDelete(b, position))

\* Backend::is_empty
BackendIsEmpty(b) == b.header.frame_count = 0

\* the positions the loop of Backend::delete visits from cursor on: the
\* frames of the chain that starts there
RECURSIVE ChainPositions(_, _, _)
ChainPositions(b, cursor, visited) ==
    IF cursor = 0 \/ cursor \in visited THEN visited
    ELSE LET Then(frame) ==
                 IF frame.st # "ok" THEN visited \cup {cursor}
                 ELSE ChainPositions(b, frame.v.next, visited \cup {cursor})
         IN  Then(ReadFrame(b, cursor))

\* header.first_free_frame, the head of the list of deleted frames that
\* block_storage/backend/allocation.rs pops from.  The Header that
\* Backend::new decodes (storage/header.rs) has no such field, and neither
\* Backend::delete nor any other statement stores a frame position in it:
\* it has the value of Header::default()
FirstFreeFrame(b) == 0

\* the frames reached from first_free_frame by following next
FreeFrames(b) == ChainPositions(b, FirstFreeFrame(b), {})

----------------------------------------------------------------------------
(* block_storage/mod.rs: records are addressed by dense indices.           *)

position_to_index(position) == (position - HeaderSize) \div FRAME_SIZE

index_to_position(index) == HeaderSize + FRAME_SIZE * index

\* BlockStorage::create
StoreCreate(b, bytes) ==
    LET Then(r) ==
            IF r.st # "ok" THEN Raise(r) ELSE Ok(r.b, position_to_index(r.v))
    IN  Then(BackendCreate(b, bytes))

\* BlockStorage::read
StoreRead(b, index) == BackendRead(b, index_to_position(index))

\* BlockStorage::update
StoreUpdate(b, index, bytes) == BackendUpdate(b, index_to_position(index), bytes)

\* BlockStorage::delete
StoreDelete(b, index) == BackendDelete(b, index_to_position(index))

\* BlockStorage::new on a fresh, empty file
FreshStore == BackendNew(<<>>, 0)

----------------------------------------------------------------------------
(* The containers of database/ store values of a type T; the model takes   *)
(* T = u8, which bincode encodes as one byte.                              *)

Values == {0, 1, 2}

\* Option<T>
None == <<>>
Some(v) == <<v>>

\* what a container call hands back: its status, the backend and the
\* in-memory header as it left them, and the value returned on "ok"
Ret(st, b, h, v) == [st |-> st, b |-> b, h |-> h, v |-> v]
\* a store call that failed inside a container method: the ? operator returns
\* the failure, with the in-memory header h as it is at that point
Failed(r, h) == Ret(r.st, r.b, h, None)

----------------------------------------------------------------------------
(* database/stack.rs                                                       *)

\* Header::default()
StackHeaderDefault == [last_element |-> 0, elements_count |-> 0]

\* bincode::serialize(&Header { last_element, elements_count })
EncodeStackHeader(h) == EncodeU64(h.last_element) \o EncodeU64(h.elements_count)

\* bincode::serialize(&Element { prev, body })
EncodeStackElement(e) == EncodeU64(e.prev) \o <<e.body>>

\* bincode::deserialize_from of an Element; "err" when the bytes run out
DecodeStackElement(bytes) ==
    IF Len(bytes) < 9 THEN [st |-> "err"]
    ELSE [st |-> "ok", prev |-> DecodeU64(bytes, 1), body |-> bytes[9]]

\* Stack::read_header
StackReadHeader(b) ==
    LET Then(bytes) ==
            IF bytes.st # "ok" THEN Failed(bytes, StackHeaderDefault)
            ELSE IF BackendIsEmpty(b)
            THEN LET Created(c) ==
                         IF c.st # "ok" THEN Failed(c, StackHeaderDefault)
                         ELSE Ret("ok", c.b, StackHeaderDefault, None)
                 IN  Created(StoreCreate(b, EncodeStackHeader(StackHeaderDefault)))
            ELSE IF Len(bytes.v) < 16 THEN Ret("err", b, StackHeaderDefault, None)
            ELSE Ret("ok", b, [last_element |-> DecodeU64(bytes.v, 1),
                               elements_count |-> DecodeU64(bytes.v, 9)], None)
    IN  Then(StoreRead(b, 0))

\* mutant of StackSaveHeader: the header is not written to the store
StackSaveHeader_NotWritten(b, h) == Ok(b, 0)

\* Stack::save_header
StackSaveHeader(b, h) == StoreUpdate(b, 0, EncodeStackHeader(h))

\* Stack::new on the file behind mapped_file, of length file_len
StackNew(mf, file_len) ==
    LET Then(r) ==
            IF r.st # "ok" THEN r
            ELSE LET Saved(s) ==
                         IF s.st # "ok" THEN Failed(s, r.h)
                         ELSE Ret("ok", s.b, r.h, None)
                 IN  Saved(StackSaveHeader(r.b, r.h))
    IN  Then(StackReadHeader(BackendNew(mf, file_len)))

\* Stack::len
StackLen(h) == h.elements_count

\* mutant of StackPushElement: the new element does not point back at the
\* element below it
StackPushElement_NoPrev(h, data) == [body |-> data, prev |-> 0]

\* Stack::push, the Element built for the value pushed
StackPushElement(h, data) ==
    [body |-> data, prev |-> IF h.last_element # 0 THEN h.last_element ELSE 0]

\* the end of Stack::push and Stack::pop: the header h1 replaces the one in
\* memory and is saved; v is the value the call returns
StackCommit(b, h1, v) ==
    LET Saved(s) == IF s.st # "ok" THEN Failed(s, h1) ELSE Ret("ok", s.b, h1, v)
    IN  Saved(StackSaveHeader(b, h1))

\* Stack::push
StackPush(b, h, data) ==
    LET Then(index) ==
            IF index.st # "ok" THEN Failed(index, h)
            ELSE StackCommit(index.b,
                             [last_element |-> index.v,
                              elements_count |-> h.elements_count + 1],
                             None)
    IN  Then(StoreCreate(b, EncodeStackElement(StackPushElement(h, data))))

\* Stack::pop, once the element at header.last_element is decoded
StackPopElement(b, h, element) ==
    IF element.st # "ok" THEN Ret("err", b, h, None)
    ELSE LET Deleted(d) ==
                 IF d.st # "ok" THEN Failed(d, h)
                 ELSE StackCommit(d.b,
                                  [last_element |-> element.prev,
                                   elements_count |-> h.elements_count - 1],
                                  Some(element.body))
         IN  Deleted(StoreDelete(b, h.last_element))

\* Stack::pop
StackPop(b, h) ==
    IF h.elements_count = 0 THEN Ret("ok", b, h, None)
    ELSE LET Then(bytes) ==
                 IF bytes.st # "ok" THEN Failed(bytes, h)
                 ELSE StackPopElement(b, h, DecodeStackElement(bytes.v))
         IN  Then(StoreRead(b, h.last_element))

----------------------------------------------------------------------------
(* database/queue.rs                                                       *)

\* Header::default()
QueueHeaderDefault == [first_element |-> 0, last_element |-> 0, elements_count |-> 0]

\* bincode::serialize(&Header { first_element, last_element, elements_count })
EncodeQueueHeader(h) ==
    EncodeU64(h.first_element) \o EncodeU64(h.last_element)
        \o EncodeU64(h.elements_count)

\* bincode::serialize(&Element { next, prev, body })
EncodeQueueElement(e) == EncodeU64(e.next) \o EncodeU64(e.prev) \o <<e.body>>

\* bincode::deserialize_from of an Element; "err" when the bytes run out
DecodeQueueElement(bytes) ==
    IF Len(bytes) < 17 THEN [st |-> "err"]
    ELSE [st |-> "ok", next |-> DecodeU64(bytes, 1),
          prev |-> DecodeU64(bytes, 9), body |-> bytes[17]]

\* Queue::read_header
QueueReadHeader(b) ==
    LET Then(bytes) ==
            IF bytes.st # "ok" THEN Failed(bytes, QueueHeaderDefault)
            ELSE IF BackendIsEmpty(b)
            THEN LET Created(c) ==
                         IF c.st # "ok" THEN Failed(c, QueueHeaderDefault)
                         ELSE Ret("ok", c.b, QueueHeaderDefault, None)
                 IN  Created(StoreCreate(b, EncodeQueueHeader(QueueHeaderDefault)))
            ELSE IF Len(bytes.v) < 24 THEN Ret("err", b, QueueHeaderDefault, None)
            ELSE Ret("ok", b, [first_element |-> DecodeU64(bytes.v, 1),
                               last_element |-> DecodeU64(bytes.v, 9),
                               elements_count |-> DecodeU64(bytes.v, 17)], None)
    IN  Then(StoreRead(b, 0))

\* Queue::save_header
QueueSaveHeader(b, h) == StoreUpdate(b, 0, EncodeQueueHeader(h))

\* Queue::new on the file behind mapped_file, of length file_len
QueueNew(mf, file_len) ==
    LET Then(r) ==
            IF r.st # "ok" THEN r
            ELSE LET Saved(s) ==
                         IF s.st # "ok" THEN Failed(s, r.h)
                         ELSE Ret("ok", s.b, r.h, None)
                 IN  Saved(QueueSaveHeader(r.b, r.h))
    IN  Then(QueueReadHeader(BackendNew(mf, file_len)))

\* Queue::len
QueueLen(h) == h.elements_count

\* the end of Queue::enqueue and Queue::dequeue: the header h1 replaces the
\* one in memory and is saved; v is the value the call returns
QueueCommit(b, h1, v) ==
    LET Saved(s) == IF s.st # "ok" THEN Failed(s, h1) ELSE Ret("ok", s.b, h1, v)
    IN  Saved(QueueSaveHeader(b, h1))

\* Queue::enqueue, the header update once the element is stored at index
QueueEnqueueLink(b, h, index) ==
    QueueCommit(b,
                [first_element |-> index,
                 last_element |-> IF h.last_element = 0 THEN index
                                  ELSE h.last_element,
                 elements_count |-> h.elements_count + 1],
                None)

\* Queue::enqueue, the current first element is pointed back at the new one:
\* the record at header.first_element is read, decoded and written back
QueueEnqueueRelink(b, h, index) ==
    LET Then(bytes) ==
            IF bytes.st # "ok" THEN Raise(bytes)
            ELSE LET Decoded(first) ==
                         IF first.st # "ok" THEN Err(b)
                         ELSE StoreUpdate(b, h.first_element,
                                  EncodeQueueElement([first EXCEPT !.prev = index]))
                 IN  Decoded(DecodeQueueElement(bytes.v))
    IN  Then(StoreRead(b, h.first_element))

\* Queue::enqueue
QueueEnqueue(b, h, data) ==
    LET Then(index) ==
            IF index.st # "ok" THEN Failed(index, h)
            ELSE LET Relinked(u) ==
                         IF u.st # "ok" THEN Failed(u, h)
                         ELSE QueueEnqueueLink(u.b, h, index.v)
                 IN  Relinked(IF h.first_element = 0 THEN index
                              ELSE QueueEnqueueRelink(index.b, h, index.v))
    IN  Then(StoreCreate(b, EncodeQueueElement(
                 [body |-> data, prev |-> 0,
                  next |-> IF h.first_element # 0 THEN h.first_element ELSE 0])))

\* mutant of QueueDequeueIsEmpty: emptiness is read off the last_element
\* pointer
QueueDequeueIsEmpty_ByPointer(h) == h.last_element = 0

\* Queue::dequeue, the test for the early return of None
QueueDequeueIsEmpty(h) == h.elements_count = 0

\* Queue::dequeue, once the element at header.last_element is decoded
QueueDequeueElement(b, h, element) ==
    IF element.st # "ok" THEN Ret("err", b, h, None)
    ELSE LET Deleted(d) ==
                 IF d.st # "ok" THEN Failed(d, h)
                 ELSE QueueCommit(d.b,
                                  [h EXCEPT !.last_element = element.prev,
                                            !.elements_count = @ - 1],
                                  Some(element.body))
         IN  Deleted(StoreDelete(b, h.last_element))

\* Queue::dequeue
QueueDequeue(b, h) ==
    IF QueueDequeueIsEmpty(h) THEN Ret("ok", b, h, None)
    ELSE LET Then(bytes) ==
                 IF bytes.st # "ok" THEN Failed(bytes, h)
                 ELSE QueueDequeueElement(b, h, DecodeQueueElement(bytes.v))
         IN  Then(StoreRead(b, h.last_element))

----------------------------------------------------------------------------
(* database/key_value.rs.  The model takes K = u8 and, for V, either u8 or  *)
(* the unit type (), which bincode encodes as no bytes at all; vtype names  *)
(* the choice ("u8" or "unit", whose one value is written 0).              *)

\* Header::default()
KvHeaderDefault == [key_indices |-> <<>>]

RECURSIVE EncodeIndices(_)
EncodeIndices(indices) ==
    IF indices = <<>> THEN <<>>
    ELSE EncodeU64(Head(indices)) \o EncodeIndices(Tail(indices))

\* bincode::serialize(&Header { key_indices }): the length, then the items
EncodeKvHeader(h) == EncodeU64(Len(h.key_indices)) \o EncodeIndices(h.key_indices)

\* bincode::deserialize_from of a Header; "err" when the bytes run out
DecodeKvHeader(bytes) ==
    IF Len(bytes) < 8 THEN [st |-> "err"]
    ELSE IF DecodeU64(bytes, 1) >= Huge
            \/ Len(bytes) < 8 + 8 * DecodeU64(bytes, 1) THEN [st |-> "err"]
    ELSE [st |-> "ok",
          key_indices |-> [i \in 1..DecodeU64(bytes, 1) |->
                               DecodeU64(bytes, 8 * i + 1)]]

\* bincode::serialize(&KeyEntry { body, value_index })
EncodeKeyEntry(entry) == <<entry.body>> \o EncodeU64(entry.value_index)

\* bincode::deserialize_from of a KeyEntry; "err" when the bytes run out
DecodeKeyEntry(bytes) ==
    IF Len(bytes) < 9 THEN [st |-> "err"]
    ELSE [st |-> "ok", body |-> bytes[1], value_index |-> DecodeU64(bytes, 2)]

\* bincode::serialize(&value)
EncodeValue(vtype, value) == IF vtype = "unit" THEN <<>> ELSE <<value>>

\* bincode::deserialize_from of a value; "err" when the bytes run out
DecodeValue(vtype, bytes) ==
    IF vtype = "unit" THEN [st |-> "ok", value |-> 0]
    ELSE IF Len(bytes) < 1 THEN [st |-> "err"]
    ELSE [st |-> "ok", value |-> bytes[1]]

\* HashMap::insert
MapInsert(l, key, x) == [y \in DOMAIN l \cup {key} |-> IF y = key THEN x ELSE l[y]]

\* HashMap::remove
MapRemove(l, key) == [y \in DOMAIN l \ {key} |-> l[y]]

\* what a KeyValue call hands back: its status, the backend, the in-memory
\* header and the lookup map as it left them, and the value returned on "ok"
KvRet(st, b, h, l, v) == [st |-> st, b |-> b, h |-> h, l |-> l, v |-> v]

\* KeyValue::read_header
KvReadHeader(b) ==
    LET Then(bytes) ==
            IF bytes.st # "ok" THEN Failed(bytes, KvHeaderDefault)
            ELSE IF BackendIsEmpty(b)
            THEN LET Created(c) ==
                         IF c.st # "ok" THEN Failed(c, KvHeaderDefault)
                         ELSE Ret("ok", c.b, KvHeaderDefault, None)
                 IN  Created(StoreCreate(b, EncodeKvHeader(KvHeaderDefault)))
            ELSE LET Decoded(h) ==
                         IF h.st # "ok" THEN Ret("err", b, KvHeaderDefault, None)
                         ELSE Ret("ok", b, [key_indices |-> h.key_indices], None)
                 IN  Decoded(DecodeKvHeader(bytes.v))
    IN  Then(StoreRead(b, 0))

\* mutant of KvSaveHeader: the header is not written to the store
KvSaveHeader_NotWritten(b, h) == Ok(b, 0)

\* KeyValue::save_header
KvSaveHeader(b, h) == StoreUpdate(b, 0, EncodeKvHeader(h))

RECURSIVE KvLoadLookup(_, _, _, _)
\* the for loop of KeyValue::new from the i-th key index on
KvLoadLookup(b, key_indices, i, l) ==
    IF i > Len(key_indices) THEN Ok(b, l)
    ELSE
      LET Then(bytes) ==
            IF bytes.st # "ok" THEN Raise(bytes)
            ELSE
              LET Decoded(entry) ==
                    IF entry.st # "ok" THEN Err(b)
                    ELSE KvLoadLookup(b, key_indices, i + 1,
                                      MapInsert(l, entry.body, entry.value_index))
              IN  Decoded(DecodeKeyEntry(bytes.v))
      IN  Then(StoreRead(b, key_indices[i]))

\* KeyValue::new on the file behind mapped_file, of length file_len
KvNew(mf, file_len) ==
    LET Then(r) ==
          IF r.st # "ok" THEN KvRet(r.st, r.b, r.h, <<>>, None)
          ELSE
            LET Saved(s) ==
                  IF s.st # "ok" THEN KvRet(s.st, s.b, r.h, <<>>, None)
                  ELSE
                    LET Loaded(l) ==
                          IF l.st # "ok" THEN KvRet(l.st, l.b, r.h, <<>>, None)
                          ELSE KvRet("ok", l.b, r.h, l.v, None)
                    IN  Loaded(KvLoadLookup(s.b, r.h.key_indices, 1, <<>>))
            IN  Saved(KvSaveHeader(r.b, r.h))
    IN  Then(KvReadHeader(BackendNew(mf, file_len)))

\* KeyValue::len
KvLen(h) == Len(h.key_indices)

\* KeyValue::keys (a Vec in the HashMap's order, taken as the set it holds)
KvKeys(l) == DOMAIN l

\* KeyValue::get
KvGet(vtype, b, l, key) ==
    IF key \notin DOMAIN l THEN [st |-> "ok", v |-> None]
    ELSE
      LET Then(bytes) ==
            IF bytes.st # "ok" THEN [st |-> bytes.st, v |-> None]
            ELSE
              LET Decoded(value) ==
                    IF value.st # "ok" THEN [st |-> "err", v |-> None]
                    ELSE [st |-> "ok", v |-> Some(value.value)]
              IN  Decoded(DecodeValue(vtype, bytes.v))
      IN  Then(StoreRead(b, l[key]))

RECURSIVE KvFindHit(_, _, _, _, _)
\* the for loop of KeyValue::remove from the i-th key index on; hit is
\* <<key_entry, hit_index>>, or <<>> while both are None
KvFindHit(b, key_indices, i, key, hit) ==
    IF i > Len(key_indices) THEN Ok(b, hit)
    ELSE
      LET Then(bytes) ==
            IF bytes.st # "ok" THEN Raise(bytes)
            ELSE
              LET Decoded(key_entry) ==
                    IF key_entry.st # "ok" THEN Err(b)
                    ELSE KvFindHit(b, key_indices, i + 1, key,
                                   IF key_entry.body = key
                                   THEN <<key_entry, key_indices[i]>> ELSE hit)
              IN  Decoded(DecodeKeyEntry(bytes.v))
      IN  Then(StoreRead(b, key_indices[i]))

\* Vec::remove at the position of the first item equal to hit_index
RemoveIndex(key_indices, hit_index) ==
    LET index_position ==
            CHOOSE i \in 1..Len(key_indices) :
                /\ key_indices[i] = hit_index
                /\ \A j \in 1..(i - 1) : key_indices[j] # hit_index
    IN  SubSeq(key_indices, 1, index_position - 1)
            \o SubSeq(key_indices, index_position + 1, Len(key_indices))

\* KeyValue::remove, the branch taken on a hit
KvRemoveHit(b, h, l, key_entry, hit_index) ==
    LET Then(d1) ==
          IF d1.st # "ok" THEN KvRet(d1.st, d1.b, h, l, None)
          ELSE
            LET Deleted(d2) ==
                  IF d2.st # "ok" THEN KvRet(d2.st, d2.b, h, l, None)
                  ELSE
                    LET Saved(s) ==
                          KvRet(s.st, s.b,
                                [key_indices |-> RemoveIndex(h.key_indices, hit_index)],
                                MapRemove(l, key_entry.body), None)
                    IN  Saved(KvSaveHeader(
                                d2.b,
                                [key_indices |-> RemoveIndex(h.key_indices, hit_index)]))
            IN  Deleted(StoreDelete(d1.b, hit_index))
    IN  Then(StoreDelete(b, key_entry.value_index))

\* KeyValue::remove
KvRemove(b, h, l, key) ==
    LET Then(found) ==
            IF found.st # "ok" THEN KvRet(found.st, found.b, h, l, None)
            ELSE IF found.v = <<>> THEN KvRet("ok", b, h, l, None)
            ELSE KvRemoveHit(b, h, l, found.v[1], found.v[2])
    IN  Then(KvFindHit(b, h.key_indices, 1, key, <<>>))

\* KeyValue::set, after the removal of an existing entry: the value and the
\* key entry are stored, then the lookup and the header are updated
KvSetInsert(vtype, b, h, l, key, value) ==
    LET Then(value_index) ==
          IF value_index.st # "ok" THEN KvRet(value_index.st, value_index.b, h, l, None)
          ELSE
            LET Created(key_index) ==
                  IF key_index.st # "ok"
                  THEN KvRet(key_index.st, key_index.b, h, l, None)
                  ELSE
                    LET Saved(s) ==
                          KvRet(s.st, s.b,
                                [key_indices |-> Append(h.key_indices, key_index.v)],
                                MapInsert(l, key, value_index.v), None)
                    IN  Saved(KvSaveHeader(
                                key_index.b,
                                [key_indices |-> Append(h.key_indices, key_index.v)]))
            IN  Created(StoreCreate(value_index.b,
                            EncodeKeyEntry([body |-> key,
                                            value_index |-> value_index.v])))
    IN  Then(StoreCreate(b, EncodeValue(vtype, value)))

\* mutant of KvSetContainsKey: an existing entry is never removed first
KvSetContainsKey_Never(l, key) == FALSE

\* KeyValue::set, the test self.lookup.contains_key(&key)
KvSetContainsKey(l, key) == key \in DOMAIN l

\* KeyValue::set
KvSet(vtype, b, h, l, key, value) ==
    LET Then(removed) ==
            IF removed.st # "ok" THEN removed
            ELSE KvSetInsert(vtype, removed.b, removed.h, removed.l, key, value)
    IN  Then(IF KvSetContainsKey(l, key) THEN KvRemove(b, h, l, key)
             ELSE KvRet("ok", b, h, l, None))

----------------------------------------------------------------------------
(* SpecStackQueue: one database/ Stack or Queue on a fresh file, driven by  *)
(* any sequence of calls and reopenings.                                   *)
(*                                                                         *)
(* shadow is the caller's book-keeping: kind, the container opened; items, *)
(* the values an abstract stack / queue holds after the calls made so far; *)
(* expect, what that abstract container returned for the last call; net,   *)
(* the insertions made minus the removals that returned Some.              *)

Called(op, arg, r) == [op |-> op, arg |-> arg, st |-> r.st, v |-> r.v]

DbNew(kind, mf, file_len) ==
    IF kind = "stack" THEN StackNew(mf, file_len) ELSE QueueNew(mf, file_len)

InitStackQueue ==
    \E kind \in {"stack", "queue"} :
        LET r == DbNew(kind, <<>>, 0)
        IN  /\ backend = r.b
            /\ header = r.h
            /\ lookup = <<>>
            /\ sibling = NoFile
            /\ result = Called("new", <<>>, r)
            /\ shadow = [kind |-> kind, items |-> <<>>, expect |-> None, net |-> 0]

\* the calls a live handle accepts, within the bounds of the model
CanCall(kind) ==
    /\ shadow.kind = kind
    /\ result.st \in {"ok", "err"}
    /\ ~(result.op \in {"new", "reopen"} /\ result.st # "ok")

CanInsert(kind) ==
    /\ CanCall(kind)
    /\ Len(shadow.items) < MaxLen
    /\ shadow.net < MaxLen
    /\ backend.header.frame_count < MaxFrames

Push(data) ==
    /\ CanInsert("stack")
    /\ LET r == StackPush(backend, header, data)
       IN  /\ backend' = r.b
           /\ header' = r.h
           /\ result' = Called("push", <<data>>, r)
    /\ shadow' = [shadow EXCEPT !.items = Append(@, data), !.expect = None,
                                !.net = @ + 1]
    /\ UNCHANGED <<lookup, sibling>>

Pop ==
    /\ CanCall("stack")
    /\ LET r == StackPop(backend, header)
       IN  /\ backend' = r.b
           /\ header' = r.h
           /\ result' = Called("pop", <<>>, r)
           /\ shadow' =
                [items  |-> IF shadow.items = <<>> THEN <<>>
                            ELSE SubSeq(shadow.items, 1, Len(shadow.items) - 1),
                 expect |-> IF shadow.items = <<>> THEN None
                            ELSE Some(shadow.items[Len(shadow.items)]),
                 net    |-> IF r.st = "ok" /\ r.v # None
                            THEN shadow.net - 1 ELSE shadow.net,
                 kind   |-> shadow.kind]
    /\ UNCHANGED <<lookup, sibling>>

Enqueue(data) ==
    /\ CanInsert("queue")
    /\ LET r == QueueEnqueue(backend, header, data)
       IN  /\ backend' = r.b
           /\ header' = r.h
           /\ result' = Called("enqueue", <<data>>, r)
    /\ shadow' = [shadow EXCEPT !.items = Append(@, data), !.expect = None,
                                !.net = @ + 1]
    /\ UNCHANGED <<lookup, sibling>>

Dequeue ==
    /\ CanCall("queue")
    /\ LET r == QueueDequeue(backend, header)
       IN  /\ backend' = r.b
           /\ header' = r.h
           /\ result' = Called("dequeue", <<>>, r)
           /\ shadow' =
                [items  |-> IF shadow.items = <<>> THEN <<>> ELSE Tail(shadow.items),
                 expect |-> IF shadow.items = <<>> THEN None
                            ELSE Some(Head(shadow.items)),
                 net    |-> IF r.st = "ok" /\ r.v # None
                            THEN shadow.net - 1 ELSE shadow.net,
                 kind   |-> shadow.kind]
    /\ UNCHANGED <<lookup, sibling>>

\* the handle is dropped and the container opened again on the same file
\* (also after a call that failed)
Reopen ==
    /\ shadow.kind \in {"stack", "queue"}
    /\ result.st # "panic"
    /\ LET r == DbNew(shadow.kind, backend.mapped_file, backend.size)
       IN  /\ backend' = r.b
           /\ header' = r.h
           /\ result' = Called("reopen", <<>>, r)
    /\ shadow' = [shadow EXCEPT !.expect = None]
    /\ UNCHANGED <<lookup, sibling>>

NextStackQueue ==
    \/ \E data \in Values : Push(data)
    \/ Pop
    \/ \E data \in Values : Enqueue(data)
    \/ Dequeue
    \/ Reopen

SpecStackQueue == InitStackQueue /\ [][NextStackQueue]_vars

----------------------------------------------------------------------------
(* Claims about the database/ Stack and Queue.                             *)

\* C1: on a Stack, every call returns Ok, each pop returns Some(v) for the
\* most recently pushed value not yet popped, or None when there is none,
\* and len() equals the pushes minus the pops that returned Some.
C1_StackLifo ==
    shadow.kind = "stack" =>
        /\ result.st = "ok"
        /\ result.op = "pop" => result.v = shadow.expect
        /\ StackLen(header) = shadow.net

\* C1 witness: a pop has returned a value while an older one is still stored.
C1_Witness ==
    /\ shadow.kind = "stack"
    /\ result.op = "pop" /\ result.st = "ok" /\ result.v # None
    /\ StackLen(header) > 0

\* C2: on a Queue, every call returns Ok, each dequeue returns Some(v) for
\* the oldest enqueued value not yet dequeued, or None when there is none,
\* and len() equals the enqueues minus the dequeues that returned Some.
C2_QueueFifo ==
    shadow.kind = "queue" =>
        /\ result.st = "ok"
        /\ result.op = "dequeue" => result.v = shadow.expect
        /\ QueueLen(header) = shadow.net

\* C6: reopening a Stack or Queue on its file changes no later result: in
\* every reachable state, opening the file again gives the in-memory header
\* and backend the open handle already has and leaves the file as it is, so
\* every later call computes from the same state with or without a reopen.
C6_ReopenTransparent ==
    (shadow.kind \in {"stack", "queue"} /\ result.st \in {"ok", "err"}) =>
        LET r == DbNew(shadow.kind, backend.mapped_file, backend.size)
        IN  /\ r.st = "ok"
            /\ r.h = header
            /\ r.b = backend

\* C6 witness: a Queue holding more than one element has been reopened.
C6_Witness ==
    /\ result.op = "reopen" /\ result.st = "ok"
    /\ shadow.kind = "queue"
    /\ QueueLen(header) > 1

\* C10: pop on an empty Stack and dequeue on an empty Queue return Ok(None)
\* and change neither the container header nor any byte of the store.
C10_EmptyRemove ==
    [][(/\ shadow.kind \in {"stack", "queue"}
        /\ header.elements_count = 0
        /\ result'.op \in {"pop", "dequeue"})
       => (/\ result'.st = "ok"
           /\ result'.v = None
           /\ header' = header
           /\ backend' = backend)]_vars

\* C10 witness: a dequeue on a Queue that was filled and drained returned
\* None.
C10_Witness ==
    /\ result.op = "dequeue" /\ result.st = "ok" /\ result.v = None
    /\ header.elements_count = 0
    /\ backend.header.frame_count > 1

----------------------------------------------------------------------------
(* SpecKV: one database/ KeyValue on a fresh file, driven by any sequence   *)
(* of set / remove / get calls and reopenings.                             *)
(*                                                                         *)
(* shadow is the caller's book-keeping: vtype, the value type the store    *)
(* was opened with; map, the key -> value map the calls made so far        *)
(* describe; repeated, whether the last call was a set(k, v) made right    *)
(* after a successful set(k, v) with the same k and v; len_before, what    *)
(* len() was between the two.                                              *)

Keys == 1..MaxKeys

KvValues(vtype) == IF vtype = "unit" THEN {0} ELSE {0, 1}

InitKV ==
    \E vtype \in {"u8", "unit"} :
        LET r == KvNew(<<>>, 0)
        IN  /\ backend = r.b
            /\ header = r.h
            /\ lookup = r.l
            /\ sibling = NoFile
            /\ result = Called("new", <<>>, r)
            /\ shadow = [kind |-> "kv", vtype |-> vtype, map |-> <<>>,
                         repeated |-> FALSE, len_before |-> 0]

\* whether set(key, value) repeats the call made last
Repeats(key, value) ==
    result.op = "set" /\ result.arg = <<key, value>> /\ result.st = "ok"

Set(key, value) ==
    /\ CanCall("kv")
    /\ LET r == KvSet(shadow.vtype, backend, header, lookup, key, value)
       IN  /\ backend' = r.b
           /\ header' = r.h
           /\ lookup' = r.l
           /\ result' = Called("set", <<key, value>>, r)
    /\ shadow' = [shadow EXCEPT
                    !.map = MapInsert(@, key, value),
                    !.repeated = Repeats(key, value),
                    !.len_before = IF Repeats(key, value) THEN KvLen(header) ELSE 0]
    /\ UNCHANGED sibling

Remove(key) ==
    /\ CanCall("kv")
    /\ LET r == KvRemove(backend, header, lookup, key)
       IN  /\ backend' = r.b
           /\ header' = r.h
           /\ lookup' = r.l
           /\ result' = Called("remove", <<key>>, r)
    /\ shadow' = [shadow EXCEPT !.map = MapRemove(@, key),
                                !.repeated = FALSE, !.len_before = 0]
    /\ UNCHANGED sibling

Get(key) ==
    /\ CanCall("kv")
    /\ result' = Called("get", <<key>>, KvGet(shadow.vtype, backend, lookup, key))
    /\ shadow' = [shadow EXCEPT !.repeated = FALSE, !.len_before = 0]
    /\ UNCHANGED <<backend, header, lookup, sibling>>

\* the handle is dropped and the store opened again on the same file
ReopenKV ==
    /\ shadow.kind = "kv"
    /\ result.st # "panic"
    /\ LET r == KvNew(backend.mapped_file, backend.size)
       IN  /\ backend' = r.b
           /\ header' = r.h
           /\ lookup' = r.l
           /\ result' = Called("reopen", <<>>, r)
    /\ shadow' = [shadow EXCEPT !.repeated = FALSE, !.len_before = 0]
    /\ UNCHANGED sibling

NextKV ==
    \/ \E key \in Keys : \E value \in KvValues(shadow.vtype) : Set(key, value)
    \/ \E key \in Keys : Remove(key)
    \/ \E key \in Keys : Get(key)
    \/ ReopenKV

SpecKV == InitKV /\ [][NextKV]_vars

\* what get(key) is to return when the store holds the map m
KvExpected(m, key) == IF key \in DOMAIN m THEN Some(m[key]) ELSE None

----------------------------------------------------------------------------
(* Claims about the database/ KeyValue.                                    *)

\* what the KeyValue is to answer when the calls made describe the map m
KvAnswers(m) ==
    /\ \A key \in Keys :
           KvGet(shadow.vtype, backend, lookup, key) =
               [st |-> "ok", v |-> KvExpected(m, key)]
    /\ KvLen(header) = Cardinality(DOMAIN m)
    /\ KvKeys(lookup) = DOMAIN m

\* C3: on a KeyValue, after any sequence of set and remove calls, get(k)
\* returns Some(v) for the value last set for k and not removed since, and
\* Ok(None) for every other key; len() is the number of keys present and
\* keys() is the set of them; a remove of an absent key changes nothing.
C3_KeyValueMap ==
    /\ [](shadow.kind = "kv" => (result.st \in {"ok", "err"} /\ KvAnswers(shadow.map)))
    /\ [][(shadow.kind = "kv" /\ result'.op = "remove"
              /\ result'.arg[1] \notin DOMAIN shadow.map)
          => (backend' = backend /\ header' = header /\ lookup' = lookup)]_vars

\* C7: reopening a KeyValue on its file rebuilds the lookup it had before:
\* the lookup is the same map, len() is unchanged and get(k) returns the
\* same result for every key k.
C7_KvReopen ==
    (shadow.kind = "kv" /\ result.st \in {"ok", "err"}
        /\ ~(result.op \in {"new", "reopen"} /\ result.st # "ok")) =>
        LET r == KvNew(backend.mapped_file, backend.size)
        IN  /\ r.st = "ok"
            /\ r.l = lookup
            /\ KvLen(r.h) = KvLen(header)
            /\ \A key \in Keys :
                   KvGet(shadow.vtype, r.b, r.l, key) =
                       KvGet(shadow.vtype, backend, lookup, key)

\* C7 witness: a store holding two keys has been reopened.
C7_Witness ==
    /\ shadow.kind = "kv"
    /\ result.op = "reopen" /\ result.st = "ok"
    /\ KvLen(header) = 2 /\ Cardinality(DOMAIN lookup) = 2

\* C9: set(k, v) made twice in a row leaves get(k) = Some(v) and len() as
\* it was after the first call.
C9_SetIdempotent ==
    (shadow.kind = "kv" /\ shadow.repeated) =>
        /\ result.st = "ok"
        /\ KvGet(shadow.vtype, backend, lookup, result.arg[1]) =
               [st |-> "ok", v |-> Some(result.arg[2])]
        /\ KvLen(header) = shadow.len_before

\* C9 witness: a set was repeated on a store that holds another key as well.
C9_Witness ==
    /\ shadow.kind = "kv" /\ shadow.repeated
    /\ result.op = "set" /\ result.st = "ok"
    /\ KvLen(header) = 2

----------------------------------------------------------------------------
(* SpecStore: one BlockStorage on a fresh file, driven by any sequence of   *)
(* create / update / delete calls on live records and reopenings; read,    *)
(* which changes nothing, is applied to the states they lead to.           *)
(*                                                                         *)
(* shadow is the caller's book-keeping: live, the handles create returned  *)
(* and delete has not been called on; updated, for each live handle that   *)
(* update was called on, the bytes of the last such call; calls, the       *)
(* number of calls made; chain, the positions of the frames the record     *)
(* was made of right before the last call when that call was delete;       *)
(* fresh, whether the calls made so far are all creates with a payload of  *)
(* at most Capacity bytes (or reopenings).                                 *)

\* a payload one byte longer than a frame's capacity
LongPayload == [i \in 1..(Capacity + 1) |-> IF i = 1 \/ i >= Capacity THEN 3 ELSE 0]

\* the byte sequences the calls are made with
Payloads == {<<>>, <<1>>, LongPayload}

\* BlockStorage::new
StoreNew(mf, file_len) == Ok(BackendNew(mf, file_len), 0)

InitStore ==
    /\ backend = FreshStore
    /\ header = <<>>
    /\ lookup = <<>>
    /\ sibling = NoFile
    /\ result = Called("new", <<>>, StoreNew(<<>>, 0))
    /\ shadow = [kind |-> "store", live |-> {}, updated |-> <<>>, calls |-> 0,
                 chain |-> {}, fresh |-> TRUE]

\* the calls a live handle accepts, within the bounds of the model
CanCallStore ==
    /\ CanCall("store")
    /\ shadow.calls < MaxCalls

Create(bytes) ==
    /\ CanCallStore
    /\ \/ Cardinality(shadow.live) < MaxLive
       \/ shadow.fresh /\ backend.header.frame_count < MaxFrames
    /\ LET r == StoreCreate(backend, bytes)
       IN  /\ backend' = r.b
           /\ result' = Called("create", bytes, r)
           /\ shadow' = [shadow EXCEPT
                           !.live = IF r.st = "ok" THEN @ \cup {r.v} ELSE @,
                           !.calls = @ + 1, !.chain = {},
                           !.fresh = @ /\ Len(bytes) <= Capacity]
    /\ UNCHANGED <<header, lookup, sibling>>

Update(index, bytes) ==
    /\ CanCallStore
    /\ index \in shadow.live
    /\ LET r == StoreUpdate(backend, index, bytes)
       IN  /\ backend' = r.b
           /\ result' = Called("update", <<index, bytes>>, r)
    /\ shadow' = [shadow EXCEPT !.updated = MapInsert(@, index, bytes),
                                !.calls = @ + 1, !.chain = {}, !.fresh = FALSE]
    /\ UNCHANGED <<header, lookup, sibling>>

Delete(index) ==
    /\ CanCallStore
    /\ index \in shadow.live
    /\ LET r == StoreDelete(backend, index)
       IN  /\ backend' = r.b
           /\ result' = Called("delete", index, r)
    /\ shadow' = [shadow EXCEPT !.live = @ \ {index},
                                !.updated = MapRemove(@, index),
                                !.calls = @ + 1,
                                !.chain = ChainPositions(
                                              backend, index_to_position(index), {}),
                                !.fresh = FALSE]
    /\ UNCHANGED <<header, lookup, sibling>>

\* the handle is dropped and the storage opened again on the same file
ReopenStore ==
    /\ shadow.kind = "store"
    /\ result.st # "panic"
    /\ shadow.calls < MaxCalls
    /\ backend' = BackendNew(backend.mapped_file, backend.size)
    /\ result' = Called("reopen", <<>>, StoreNew(backend.mapped_file, backend.size))
    /\ shadow' = [shadow EXCEPT !.calls = @ + 1, !.chain = {}]
    /\ UNCHANGED <<header, lookup, sibling>>

NextStore ==
    \/ \E bytes \in Payloads : Create(bytes)
    \/ \E index \in shadow.live : \E bytes \in Payloads : Update(index, bytes)
    \/ \E index \in shadow.live : Delete(index)
    \/ ReopenStore

SpecStore == InitStore /\ [][NextStore]_vars

----------------------------------------------------------------------------
(* Claims about the block storage.                                         *)

\* C4: read(create(b)) returns exactly b, for every byte sequence b (the
\* empty one and one longer than a frame's capacity included) and every
\* reachable state of the block storage.
C4_ReadAfterCreate ==
    (shadow.kind = "store" /\ result.op = "create") =>
        /\ result.st = "ok"
        /\ StoreRead(backend, result.v).st = "ok"
        /\ StoreRead(backend, result.v).v = result.arg

\* C5: after update(i, b) on a live record i, read(i) returns b and keeps
\* returning b across every later create, update or delete applied to other
\* records, until i itself is updated or deleted.
C5_UpdateKeepsHandle ==
    shadow.kind = "store" =>
        \A index \in DOMAIN shadow.updated :
            /\ StoreRead(backend, index).st = "ok"
            /\ StoreRead(backend, index).v = shadow.updated[index]

\* C11: after delete(h) on a live record h, every frame that was in h's
\* chain has deleted = true and is reachable from first_free_frame by
\* following next.
C11_DeleteFreesChain ==
    (shadow.kind = "store" /\ result.op = "delete" /\ result.st = "ok") =>
        \A position \in shadow.chain :
            /\ ReadFrame(backend, position).st = "ok"
            /\ ReadFrame(backend, position).v.deleted
            /\ position \in FreeFrames(backend)

\* C17: after every block-storage operation, in every reachable state,
\* frame_count * F + H <= mapped length (every allocated frame lies entirely
\* inside the current mapping).
C17_FramesInsideMapping ==
    shadow.kind \in {"store", "kv", "stack", "queue"} =>
        backend.header.frame_count * FRAME_SIZE + HeaderSize <= backend.size

----------------------------------------------------------------------------
(* SpecStoreAny: one BlockStorage on a fresh file, driven by create and by *)
(* read / update / delete calls with a record index outside the frame      *)
(* grid (index >= frame_count), inside the mapping and beyond it.          *)
(*                                                                         *)
(* shadow is the caller's book-keeping: calls, the number of calls made;   *)
(* before, the storage as it was right before the last call.               *)

\* the record indices the calls are made with
AnyIndices == 0..MaxFrames

InitStoreAny ==
    /\ backend = FreshStore
    /\ header = <<>>
    /\ lookup = <<>>
    /\ sibling = NoFile
    /\ result = Called("new", <<>>, StoreNew(<<>>, 0))
    /\ shadow = [kind |-> "storeany", calls |-> 0, before |-> FreshStore]

CanCallStoreAny ==
    /\ CanCall("storeany")
    /\ shadow.calls < MaxCalls

StoreAnyCalled == [shadow EXCEPT !.calls = @ + 1, !.before = backend]

CreateAny(bytes) ==
    /\ CanCallStoreAny
    /\ backend.header.frame_count < MaxFrames
    /\ \E r \in {StoreCreate(backend, bytes)} :
           /\ backend' = r.b
           /\ result' = Called("create", bytes, r)
    /\ shadow' = StoreAnyCalled
    /\ UNCHANGED <<header, lookup, sibling>>

\* read(index) with index outside the grid
ReadOutside(index) ==
    /\ CanCallStoreAny
    /\ index >= backend.header.frame_count
    /\ \E r \in {StoreRead(backend, index)} :
           /\ backend' = r.b
           /\ result' = Called("read", index, r)
    /\ shadow' = StoreAnyCalled
    /\ UNCHANGED <<header, lookup, sibling>>

\* update(index, bytes) with index outside the grid
UpdateOutside(index, bytes) ==
    /\ CanCallStoreAny
    /\ index >= backend.header.frame_count
    /\ \E r \in {StoreUpdate(backend, index, bytes)} :
           /\ backend' = r.b
           /\ result' = Called("update", <<index, bytes>>, r)
    /\ shadow' = StoreAnyCalled
    /\ UNCHANGED <<header, lookup, sibling>>

\* delete(index) with index outside the grid
DeleteOutside(index) ==
    /\ CanCallStoreAny
    /\ index >= backend.header.frame_count
    /\ \E r \in {StoreDelete(backend, index)} :
           /\ backend' = r.b
           /\ result' = Called("delete", index, r)
    /\ shadow' = StoreAnyCalled
    /\ UNCHANGED <<header, lookup, sibling>>

NextStoreAny ==
    \/ \E bytes \in Payloads : CreateAny(bytes)
    \/ \E index \in AnyIndices : ReadOutside(index)
    \/ \E index \in AnyIndices : \E bytes \in Payloads : UpdateOutside(index, bytes)
    \/ \E index \in AnyIndices : DeleteOutside(index)

SpecStoreAny == InitStoreAny /\ [][NextStoreAny]_vars

\* C21: a read, update or delete called with a record index outside the
\* current frame grid (index >= frame_count) reports an error to the caller
\* and modifies neither the block-storage header nor any frame.
C21_OutsideGridIsError ==
    (shadow.kind = "storeany" /\ result.op \in {"read", "update", "delete"}) =>
        /\ result.st = "err"
        /\ backend = shadow.before

\* C22: frame_count never decreases under any block-storage operation;
\* consequently is_empty() is true exactly while frame_count = 0 and never
\* becomes true again after the first create, even after every record has
\* been deleted.
C22_FrameCountNeverDecreases ==
    [][shadow.kind = "store" =>
          /\ backend'.header.frame_count >= backend.header.frame_count
          /\ (BackendIsEmpty(backend') <=> backend'.header.frame_count = 0)
          /\ (~BackendIsEmpty(backend) => ~BackendIsEmpty(backend'))]_vars

\* C23: starting from an empty store, after k create calls each with a
\* payload of size <= capacity and no delete or update in between,
\* frame_count = k and the k returned indices are 0, 1, ..., k-1.
C23_CreatesFillGrid ==
    (shadow.kind = "store" /\ shadow.fresh) =>
        /\ backend.header.frame_count = Cardinality(shadow.live)
        /\ shadow.live = 0..(Cardinality(shadow.live) - 1)
        /\ (result.op = "create" =>
                result.st = "ok" /\ result.v = Cardinality(shadow.live) - 1)

\* three creates, the empty payload among them, have been made
C23_Witness ==
    /\ shadow.kind = "store" /\ shadow.fresh
    /\ result.op = "create" /\ result.arg = <<>>
    /\ Cardinality(shadow.live) = 3

\* the head position and the payload of the record the last create or
\* update was about
LastHead ==
    index_to_position(IF result.op = "create" THEN result.v ELSE result.arg[1])
LastPayload == IF result.op = "create" THEN result.arg ELSE result.arg[2]

\* C24: create (or update) of a payload of size s > capacity stores it in
\* exactly ceil(s / capacity) frames: the head frame and each following
\* frame except the last has body_size = capacity and next pointing to the
\* following frame, and the last frame has next = 0.
C24_LongPayloadChained ==
    (/\ shadow.kind = "store"
     /\ result.op \in {"create", "update"} /\ result.st = "ok"
     /\ Len(LastPayload) > Capacity)
    => LET chain == ChainPositions(backend, LastHead, {})
       IN  /\ Cardinality(chain) = ChunkCount(LastPayload)
           /\ \A position \in chain :
                  /\ ReadFrame(backend, position).st = "ok"
                  /\ ~ReadFrame(backend, position).v.deleted
                  /\ ReadFrame(backend, position).v.next # 0 =>
                         /\ ReadFrame(backend, position).v.body_size = Capacity
                         /\ ReadFrame(backend, position).v.next \in chain \ {LastHead}
           /\ Cardinality({position \in chain :
                               ReadFrame(backend, position).v.next = 0}) = 1

\* the record at index is a live one: its head frame is inside the grid and
\* not marked deleted
LiveRecord(b, index) ==
    /\ index < b.header.frame_count
    /\ ReadFrame(b, index_to_position(index)).st = "ok"
    /\ ~ReadFrame(b, index_to_position(index)).v.deleted

\* C25: in the header of the BlockStorage-backed Queue, after any sequence
\* of enqueue and dequeue calls, elements_count = 0 iff first_element = 0
\* iff last_element = 0, and whenever elements_count > 0 both first_element
\* and last_element are indices of live (not deleted) element records.
C25_QueueHeaderEnds ==
    (shadow.kind = "queue" /\ result.st = "ok") =>
        /\ (header.elements_count = 0 <=> header.first_element = 0)
        /\ (header.elements_count = 0 <=> header.last_element = 0)
        /\ (header.elements_count > 0 =>
                /\ LiveRecord(backend, header.first_element)
                /\ LiveRecord(backend, header.last_element))

\* the frames of the grid that are marked deleted: the frames the
\* allocator's sweep can hand out again
DeletedFrames(b) ==
    {position \in {index_to_position(index) :
                       index \in 0..(b.header.frame_count - 1)} :
        /\ ReadFrame(b, position).st = "ok"
        /\ ReadFrame(b, position).v.deleted}

\* C26: when at least one free frame exists (a frame with deleted = true is
\* available), allocating a frame returns a free frame, removes it from the
\* free set, and leaves frame_count and the mapped length unchanged;
\* frame_count grows by one only when no free frame exists.  (A create of
\* at most Capacity bytes allocates exactly one frame.)
C26_AllocatorReusesFreeFrame ==
    [][(/\ shadow.kind = "store"
        /\ result'.op = "create" /\ result'.st = "ok"
        /\ Len(result'.arg) <= Capacity)
       => IF DeletedFrames(backend) # {}
          THEN /\ index_to_position(result'.v) \in DeletedFrames(backend)
               /\ index_to_position(result'.v) \notin DeletedFrames(backend')
               /\ backend'.header.frame_count = backend.header.frame_count
               /\ backend'.size = backend.size
          ELSE backend'.header.frame_count = backend.header.frame_count + 1]_vars

RECURSIVE ChainEnds(_, _, _)
\* following next from cursor ends at 0 without meeting a frame twice
ChainEnds(b, cursor, visited) ==
    IF cursor = 0 THEN TRUE
    ELSE IF cursor \in visited THEN FALSE
    ELSE LET Then(frame) ==
                 /\ frame.st = "ok"
                 /\ ChainEnds(b, frame.v.next, visited \cup {cursor})
         IN  Then(ReadFrame(b, cursor))

\* the frames the allocator hands out again: the ones on the list from
\* first_free_frame and the ones its sweep finds
FreeList(b) == FreeFrames(b) \cup DeletedFrames(b)

\* the frames of the chains of the live records
LiveFrames ==
    UNION {ChainPositions(backend, index_to_position(index), {}) :
               index \in shadow.live}

C28_PositionIsOffset ==
    (shadow.kind = "store" /\ result.op = "create" /\ result.st = "ok") =>
        \A position \in ChainPositions(backend, index_to_position(result.v), {}) :
            /\ ReadFrame(backend, position).st = "ok"
            /\ ReadFrame(backend, position).v.position = position

\* C29: in every reachable block-storage state, distinct live records have
\* distinct head indices and no frame belongs to the chains of two live
\* records: create never returns the head index of a record that has been
\* created or updated and not yet deleted, for any payloads including empty
\* ones.
C29_LiveRecordsDisjoint ==
    [][shadow.kind = "store" =>
          /\ (result'.op = "create" /\ result'.st = "ok")
                 => result'.v \notin shadow.live
          /\ \A i \in shadow'.live : \A j \in shadow'.live \ {i} :
                 ChainPositions(backend', index_to_position(i), {})
                     \cap ChainPositions(backend', index_to_position(j), {}) = {}]_vars

\* the position of the frame the byte at offset lies in
FrameOf(offset) == index_to_position(position_to_index(offset))

\* C30: delete(h), for every handle h previously returned by create,
\* changes only the frames of h's own chain (and the free-list head
\* pointer): the header fields frame_count and version and the header and
\* body bytes of every frame of every other record are the same after the
\* call as before.
C30_DeleteTouchesOwnChain ==
    [][(shadow.kind = "store" /\ result'.op = "delete" /\ result'.st = "ok") =>
          /\ backend'.header = backend.header
          /\ Slice(backend'.mapped_file, 0, HeaderSize)
                 = Slice(backend.mapped_file, 0, HeaderSize)
          /\ \A offset \in DOMAIN backend.mapped_file \cup DOMAIN backend'.mapped_file :
                 (offset >= HeaderSize /\ FrameOf(offset) \notin shadow'.chain)
                     => Byte(backend'.mapped_file, offset)
                            = Byte(backend.mapped_file, offset)]_vars

----------------------------------------------------------------------------
(* backend/mmap.rs: the file mapping the linked list is stored in.  An     *)
(* Mmap is modelled as [size, mapped_len, mapped_file]: size is the field  *)
(* of that name (it is also the length of the file), mapped_len the length *)
(* of the mapping held in the field mapped_file.                           *)

\* Mmap::new: let min_size
MmapMinSize == 1024

Max(a, b) == IF a > b THEN a ELSE b

\* what the operating system does to a call that grows the file: nothing
\* fails ("none"), file.set_len fails, or mapping the file again fails
Faults == {"none", "set_len", "map"}

\* Mmap::new on a file that holds mapped_file and has length file_len
MmapNew(mf, file_len) ==
    [size |-> Max(file_len, MmapMinSize),
     mapped_len |-> Max(file_len, MmapMinSize),
     mapped_file |-> mf]

\* resize_mapped_file that maps a file emptied of its bytes
ResizeMappedFile_Emptied(m, fault) ==
    Ok([m EXCEPT !.size = 2 * m.size, !.mapped_len = 2 * m.size,
                 !.mapped_file = <<>>], 0)

\* Mmap::resize_mapped_file: the file and the mapping double and the bytes
\* stay; size is assigned between set_len and create_file_mapping
ResizeMappedFile(m, fault) ==
    IF fault = "set_len" THEN Err(m)
    ELSE IF fault = "map" THEN Err([m EXCEPT !.size = 2 * m.size])
    ELSE Ok([m EXCEPT !.size = 2 * m.size, !.mapped_len = 2 * m.size], 0)

\* Mmap::read: &mapped_file[start .. end]
MmapRead(m, start, end) ==
    IF start > end \/ end > m.mapped_len THEN Panic(m)
    ELSE Ok(m, Slice(m.mapped_file, start, end - start))

\* Mmap::write: one resize when the range ends outside size, then
\* (&mut mapped_file[start .. end]).write_all(bytes)
MmapWrite(m, start, end, bytes, fault) ==
    LET Then(r) ==
            IF r.st # "ok" THEN Raise(r)
            ELSE IF start > end \/ end > r.b.mapped_len THEN Panic(r.b)
            ELSE IF Len(bytes) > end - start
            THEN Err([r.b EXCEPT !.mapped_file =
                          WriteAll(@, start, SubSeq(bytes, 1, end - start))])
            ELSE Ok([r.b EXCEPT !.mapped_file = WriteAll(@, start, bytes)],
                    Len(bytes))
    IN  Then(IF end > m.size THEN ResizeMappedFile(m, fault) ELSE Ok(m, 0))

----------------------------------------------------------------------------
(* SpecMmap: one Mmap on a fresh file, driven by any sequence of writes     *)
(* (at the start of the file, across and beyond the end of the mapping,    *)
(* with the system failing or not), reads and reopenings.                  *)
(*                                                                         *)
(* shadow is the caller's book-keeping: calls, the number of writes made;  *)
(* before, the Mmap as it was right before the last write.                 *)

\* the offsets the ranges start at, their lengths, and the bytes written
MmapStarts == {0, MmapMinSize - 1, 2 * MmapMinSize - 1, 2 * MmapMinSize}
MmapLengths == {1, 2}
MmapBytes == {<<1>>, <<2, 3>>}

InitMmap ==
    /\ backend = MmapNew(<<>>, 0)
    /\ header = <<>>
    /\ lookup = <<>>
    /\ sibling = NoFile
    /\ result = Called("new", <<>>, Ok(MmapNew(<<>>, 0), 0))
    /\ shadow = [kind |-> "mmap", calls |-> 0, before |-> MmapNew(<<>>, 0)]

\* write(start .. start + length, bytes)
MmapWriteCall(start, length, bytes, fault) ==
    /\ CanCall("mmap")
    /\ shadow.calls < MaxWrites
    /\ LET r == MmapWrite(backend, start, start + length, bytes, fault)
       IN  /\ backend' = r.b
           /\ result' = [op |-> "write", st |-> r.st, v |-> r.v,
                         arg |-> [start |-> start, end |-> start + length,
                                  bytes |-> bytes, fault |-> fault]]
    /\ shadow' = [shadow EXCEPT !.calls = @ + 1, !.before = backend]
    /\ UNCHANGED <<header, lookup, sibling>>

\* read(start .. start + length)
MmapReadCall(start, length) ==
    /\ CanCall("mmap")
    /\ result' = Called("read", <<start, start + length>>,
                        MmapRead(backend, start, start + length))
    /\ UNCHANGED <<backend, header, lookup, sibling, shadow>>

\* the handle is dropped and the file mapped again
MmapReopen ==
    /\ shadow.kind = "mmap"
    /\ result.st # "panic"
    /\ result.op # "reopen"
    /\ backend' = MmapNew(backend.mapped_file, backend.size)
    /\ result' = Called("reopen", <<>>, Ok(backend, 0))
    /\ UNCHANGED <<header, lookup, sibling, shadow>>

NextMmap ==
    \/ \E start \in MmapStarts : \E length \in MmapLengths :
           \E bytes \in MmapBytes : \E fault \in Faults :
               MmapWriteCall(start, length, bytes, fault)
    \/ \E start \in MmapStarts : \E length \in MmapLengths :
           MmapReadCall(start, length)
    \/ MmapReopen

SpecMmap == InitMmap /\ [][NextMmap]_vars

----------------------------------------------------------------------------
(* Claims about the Mmap.                                                  *)

\* the offsets of the range of the last write
WrittenRange == result.arg.start .. (result.arg.end - 1)

\* C18: after a successful write(range, bytes) with |bytes| = |range|,
\* read(range) returns exactly bytes, and every byte of the mapping outside
\* range keeps the value it had before the call, also when the write made
\* the mapping grow.
C18_WriteVisible ==
    (/\ shadow.kind = "mmap"
     /\ result.op = "write" /\ result.st = "ok"
     /\ Len(result.arg.bytes) = result.arg.end - result.arg.start)
    => /\ MmapRead(backend, result.arg.start, result.arg.end).st = "ok"
       /\ MmapRead(backend, result.arg.start, result.arg.end).v = result.arg.bytes
       /\ \A o \in (DOMAIN backend.mapped_file
                        \cup DOMAIN shadow.before.mapped_file) \ WrittenRange :
              Byte(backend.mapped_file, o) = Byte(shadow.before.mapped_file, o)

\* a write across the end of a mapping that held bytes made it grow
C18_Witness ==
    /\ shadow.kind = "mmap"
    /\ result.op = "write" /\ result.st = "ok"
    /\ Len(result.arg.bytes) = result.arg.end - result.arg.start
    /\ backend.mapped_len > shadow.before.mapped_len
    /\ DOMAIN shadow.before.mapped_file \ WrittenRange # {}

\* C19: a write whose range.end exceeds the current mapped length succeeds
\* for every such range: the mapped length is doubled until range.end fits
\* (exactly one doubling when the range merely crosses the current mapped
\* length), the mapping is re-created over the new length, and the bytes
\* are written.
C19_GrowingWriteSucceeds ==
    (/\ shadow.kind = "mmap"
     /\ result.op = "write" /\ result.arg.fault = "none"
     /\ result.arg.end > shadow.before.mapped_len
     /\ Len(result.arg.bytes) = result.arg.end - result.arg.start)
    => /\ result.st = "ok"
       /\ backend.mapped_len >= result.arg.end
       /\ (result.arg.start < shadow.before.mapped_len
               => backend.mapped_len = 2 * shadow.before.mapped_len)
       /\ MmapRead(backend, result.arg.start, result.arg.end).st = "ok"
       /\ MmapRead(backend, result.arg.start, result.arg.end).v = result.arg.bytes

\* C20: if growing the mapped file fails at any step (extending the file
\* with set_len, or re-creating the mapping), the recorded length and the
\* mapping are the same as before the call and the error is returned to
\* the caller.
C20_FailedGrowthChangesNothing ==
    (/\ shadow.kind = "mmap"
     /\ result.op = "write" /\ result.arg.fault # "none"
     /\ result.arg.end > shadow.before.size)
    => /\ result.st = "err"
       /\ backend.size = shadow.before.size
       /\ backend.mapped_len = shadow.before.mapped_len
       /\ backend.mapped_file = shadow.before.mapped_file

----------------------------------------------------------------------------
(* model/linked_list/header.rs: the list header at offset 0.  The header   *)
(* of the list in model/linked_list/mod.rs carries a fifth counter,        *)
(* unused_bytes (mod.rs reads it in used_bytes and adds to it in           *)
(* finalize_removal); header.rs as shipped stops at allocate_ptr, so the   *)
(* field, its place after allocate_ptr and its two accessors follow the    *)
(* specification.                                                          *)

\* std::mem::size_of::<Header>(): five usize
ListHeaderSize == 5 * 8

\* Header::default()
ListHeaderDefault ==
    [first_node_ptr |-> 0, last_node_ptr |-> 0, element_count |-> 0,
     allocate_ptr |-> 0, unused_bytes |-> 0]

EncodeListHeader(h) ==
    EncodeU64(h.first_node_ptr) \o EncodeU64(h.last_node_ptr)
        \o EncodeU64(h.element_count) \o EncodeU64(h.allocate_ptr)
        \o EncodeU64(h.unused_bytes)

DecodeListHeader(bytes) ==
    [first_node_ptr |-> DecodeU64(bytes, 1), last_node_ptr |-> DecodeU64(bytes, 9),
     element_count |-> DecodeU64(bytes, 17), allocate_ptr |-> DecodeU64(bytes, 25),
     unused_bytes |-> DecodeU64(bytes, 33)]

\* Header::get_unused_bytes
GetUnusedBytes(h) == h.unused_bytes

\* an inc_unused_bytes that counts nothing
IncUnusedBytes_Not(h, n) == h

\* Header::inc_unused_bytes
IncUnusedBytes(h, n) == [h EXCEPT !.unused_bytes = @ + n]

\* StaticBlock::load for Header
ListHeaderLoad(m) ==
    LET Then(r) ==
            IF r.st # "ok" THEN Raise(r) ELSE Ok(m, DecodeListHeader(r.v))
    IN  Then(MmapRead(m, 0, ListHeaderSize))

\* StaticBlock::save for Header
ListHeaderSave(m, h) ==
    MmapWrite(m, 0, ListHeaderSize, EncodeListHeader(h), "none")

----------------------------------------------------------------------------
(* model/linked_list/node.rs, backend/static_block.rs,                     *)
(* backend/data_block.rs: a node and the payload stored behind it.         *)
(* The payload type T is u8.  The list is run on a system that lets the    *)
(* file grow (fault "none").                                               *)

\* std::mem::size_of::<Node<T>>(): four usize and a PhantomData
NodeSize == 4 * 8

\* Node::new
NodeNew(position) ==
    [position |-> position, next_ptr |-> 0, prev_ptr |-> 0, data_size |-> 0]

EncodeNode(n) ==
    EncodeU64(n.position) \o EncodeU64(n.next_ptr)
        \o EncodeU64(n.prev_ptr) \o EncodeU64(n.data_size)

DecodeNode(bytes) ==
    [position |-> DecodeU64(bytes, 1), next_ptr |-> DecodeU64(bytes, 9),
     prev_ptr |-> DecodeU64(bytes, 17), data_size |-> DecodeU64(bytes, 25)]

\* StaticBlock::load for Node
NodeLoad(m, start) ==
    LET Then(r) ==
            IF r.st # "ok" THEN Raise(r) ELSE Ok(m, DecodeNode(r.v))
    IN  Then(MmapRead(m, start, start + NodeSize))

\* StaticBlock::save for Node; hands back the node saved
NodeSave(m, n) ==
    LET Then(r) == IF r.st # "ok" THEN Raise(r) ELSE Ok(r.b, n)
    IN  Then(MmapWrite(m, n.position, n.position + NodeSize, EncodeNode(n), "none"))

\* Node::create
NodeCreate(m, position) == NodeSave(m, NodeNew(position))

\* Node::set_next
NodeSetNext(m, n, other) == NodeSave(m, [n EXCEPT !.next_ptr = other.position])

\* Node::set_next_empty
NodeSetNextEmpty(m, n) == NodeSave(m, [n EXCEPT !.next_ptr = 0])

\* Node::set_prev
NodeSetPrev(m, n, other) == NodeSave(m, [n EXCEPT !.prev_ptr = other.position])

\* Node::set_prev_empty
NodeSetPrevEmpty(m, n) == NodeSave(m, [n EXCEPT !.prev_ptr = 0])

\* bincode::serialize of a u8
EncodeData(data) == <<data>>

\* DataBlock::data_store: the node with its data_size, then the payload
\* behind it
DataStore(m, n, data) ==
    LET Saved(s) ==
            IF s.st # "ok" THEN Raise(s)
            ELSE LET Written(w) == IF w.st # "ok" THEN Raise(w) ELSE Ok(w.b, s.v)
                 IN  Written(MmapWrite(s.b, s.v.position + NodeSize,
                                       s.v.position + NodeSize + s.v.data_size,
                                       EncodeData(data), "none"))
    IN  Saved(NodeSave(m, [n EXCEPT !.data_size = Len(EncodeData(data))]))

\* DataBlock::data_fetch: bincode reads a u8 from the first byte of the
\* payload range and fails on an empty range
DataFetch(m, n) ==
    LET Then(r) ==
            IF r.st # "ok" THEN Raise(r)
            ELSE IF Len(r.v) < 1 THEN Err(m)
            ELSE Ok(m, r.v[1])
    IN  Then(MmapRead(m, n.position + NodeSize, n.position + NodeSize + n.data_size))

----------------------------------------------------------------------------
(* model/linked_list/mod.rs                                                *)

\* LinkedList::initialize_state once the header is loaded
ListInitializeHeader(m, h) ==
    LET Saved(s) == Ret(s.st, s.b, h, None)
    IN  Saved(ListHeaderSave(m, h))

\* LinkedList::new on a file that holds mapped_file and has length file_len
ListNew(mf, file_len) ==
    LET Loaded(r) ==
            IF r.st # "ok" THEN Failed(r, ListHeaderDefault)
            ELSE ListInitializeHeader(
                     r.b,
                     IF r.v.element_count = 0
                     THEN [r.v EXCEPT !.allocate_ptr = ListHeaderSize]
                     ELSE r.v)
    IN  Loaded(ListHeaderLoad(MmapNew(mf, file_len)))

\* LinkedList::count
ListCount(h) == h.element_count

\* LinkedList::allocated_bytes
ListAllocatedBytes(h) == h.allocate_ptr

\* LinkedList::used_bytes
ListUsedBytes(h) == ListAllocatedBytes(h) - GetUnusedBytes(h)

\* LinkedList::first_node: the node decoded at first_node_ptr, always Some
ListFirstNode(m, h) ==
    LET Then(node) == IF node.st # "ok" THEN Raise(node) ELSE Ok(m, Some(node.v))
    IN  Then(NodeLoad(m, h.first_node_ptr))

\* LinkedList::last_node: the node decoded at last_node_ptr, always Some
ListLastNode(m, h) ==
    LET Then(node) == IF node.st # "ok" THEN Raise(node) ELSE Ok(m, Some(node.v))
    IN  Then(NodeLoad(m, h.last_node_ptr))

\* LinkedList::update_allocator
UpdateAllocator(m, h, n) ==
    IF n.position + NodeSize + n.data_size > h.allocate_ptr
    THEN LET Saved(s) ==
                 Ret(s.st, s.b,
                     [h EXCEPT !.allocate_ptr = n.position + NodeSize + n.data_size],
                     IF s.st = "ok" THEN n ELSE None)
         IN  Saved(ListHeaderSave(
                 m, [h EXCEPT !.allocate_ptr = n.position + NodeSize + n.data_size]))
    ELSE Ret("ok", m, h, n)

\* LinkedList::finalize_insert once the header fields are set
FinalizeInsertSave(m, h, n) ==
    LET Saved(s) ==
            IF s.st # "ok" THEN Failed(s, h) ELSE UpdateAllocator(s.b, h, n)
    IN  Saved(ListHeaderSave(m, h))

\* finalize_insert without inc_counter
FinalizeInsert_NoCount(m, h, n) ==
    FinalizeInsertSave(
        m,
        [h EXCEPT !.first_node_ptr = IF n.prev_ptr = 0 THEN n.position ELSE @,
                  !.last_node_ptr = IF n.next_ptr = 0 THEN n.position ELSE @],
        n)

\* LinkedList::finalize_insert
FinalizeInsert(m, h, n) ==
    FinalizeInsertSave(
        m,
        [h EXCEPT !.first_node_ptr = IF n.prev_ptr = 0 THEN n.position ELSE @,
                  !.last_node_ptr = IF n.next_ptr = 0 THEN n.position ELSE @,
                  !.element_count = @ + 1],
        n)

\* LinkedList::insert_before
ListInsertBefore(m, h, node, data) ==
    LET Linked(new_node) ==
            \* prev_node.set_next(new_node); new_node.set_prev(prev_node)
            LET Prev(p) ==
                    IF p.st # "ok" THEN Raise(p)
                    ELSE LET Fwd(s) ==
                                 IF s.st # "ok" THEN Raise(s)
                                 ELSE NodeSetPrev(s.b, new_node.v, s.v)
                         IN  Fwd(NodeSetNext(p.b, p.v, new_node.v))
            IN  IF node.prev_ptr = 0 THEN new_node
                ELSE Prev(NodeLoad(new_node.b, node.prev_ptr))
        Created(c) ==
            IF c.st # "ok" THEN Failed(c, h)
            ELSE LET Spliced(s) ==
                         IF s.st # "ok" THEN Failed(s, h)
                         ELSE LET Back(p) ==
                                      IF p.st # "ok" THEN Failed(p, h)
                                      ELSE LET Fwd(f) ==
                                                   IF f.st # "ok" THEN Failed(f, h)
                                                   ELSE LET Stored(d) ==
                                                                IF d.st # "ok"
                                                                THEN Failed(d, h)
                                                                ELSE FinalizeInsert(d.b, h, d.v)
                                                        IN  Stored(DataStore(f.b, f.v, data))
                                           IN  Fwd(NodeSetNext(p.b, s.v, p.v))
                              IN  Back(NodeSetPrev(s.b, node, s.v))
                 IN  Spliced(Linked(c))
    IN  Created(NodeCreate(m, h.allocate_ptr))

\* an insert_after that places the node before the given one
ListInsertAfter_Before(m, h, node, data) == ListInsertBefore(m, h, node, data)

\* LinkedList::insert_after
ListInsertAfter(m, h, node, data) ==
    LET Linked(new_node) ==
            \* next_node.set_prev(new_node); new_node.set_next(next_node)
            LET Next(n) ==
                    IF n.st # "ok" THEN Raise(n)
                    ELSE LET Back(s) ==
                                 IF s.st # "ok" THEN Raise(s)
                                 ELSE NodeSetNext(s.b, new_node.v, s.v)
                         IN  Back(NodeSetPrev(n.b, n.v, new_node.v))
            IN  IF node.next_ptr = 0 THEN new_node
                ELSE Next(NodeLoad(new_node.b, node.next_ptr))
        Created(c) ==
            IF c.st # "ok" THEN Failed(c, h)
            ELSE LET Spliced(s) ==
                         IF s.st # "ok" THEN Failed(s, h)
                         ELSE LET Fwd(f) ==
                                      IF f.st # "ok" THEN Failed(f, h)
                                      ELSE LET Back(p) ==
                                                   IF p.st # "ok" THEN Failed(p, h)
                                                   ELSE LET Stored(d) ==
                                                                IF d.st # "ok"
                                                                THEN Failed(d, h)
                                                                ELSE FinalizeInsert(d.b, h, d.v)
                                                        IN  Stored(DataStore(p.b, p.v, data))
                                           IN  Back(NodeSetPrev(f.b, s.v, f.v))
                              IN  Fwd(NodeSetNext(s.b, node, s.v))
                 IN  Spliced(Linked(c))
    IN  Created(NodeCreate(m, h.allocate_ptr))

\* LinkedList::insert_start up to finalize_insert: the writes of the node
\* prefixes and of the payload
ListInsertStartWrites(m, h, data) ==
    LET Created(c) ==
            IF c.st # "ok" THEN Raise(c)
            ELSE LET First(f) ==
                         IF f.st # "ok" THEN Raise(f)
                         ELSE LET Linked(s) ==
                                      IF s.st # "ok" THEN Raise(s)
                                      ELSE LET Back(p) ==
                                                   IF p.st # "ok" THEN Raise(p)
                                                   ELSE DataStore(p.b, p.v, data)
                                           IN  Back(NodeSetNext(s.b, c.v, s.v))
                              IN  Linked(NodeSetPrev(f.b, f.v[1], c.v))
                 IN  First(ListFirstNode(c.b, h))
    IN  Created(NodeCreate(m, h.allocate_ptr))

\* LinkedList::insert_start
ListInsertStart(m, h, data) ==
    LET Stored(d) ==
            IF d.st # "ok" THEN Failed(d, h) ELSE FinalizeInsert(d.b, h, d.v)
    IN  Stored(ListInsertStartWrites(m, h, data))

\* LinkedList::insert_end up to finalize_insert: the writes of the node
\* prefixes and of the payload
ListInsertEndWrites(m, h, data) ==
    LET Created(c) ==
            IF c.st # "ok" THEN Raise(c)
            ELSE LET Last(l) ==
                         IF l.st # "ok" THEN Raise(l)
                         ELSE LET Linked(s) ==
                                      IF s.st # "ok" THEN Raise(s)
                                      ELSE LET Back(p) ==
                                                   IF p.st # "ok" THEN Raise(p)
                                                   ELSE DataStore(p.b, p.v, data)
                                           IN  Back(NodeSetPrev(s.b, c.v, s.v))
                              IN  Linked(NodeSetNext(l.b, l.v[1], c.v))
                 IN  Last(ListLastNode(c.b, h))
    IN  Created(NodeCreate(m, h.allocate_ptr))

\* LinkedList::insert_end
ListInsertEnd(m, h, data) ==
    LET Stored(d) ==
            IF d.st # "ok" THEN Failed(d, h) ELSE FinalizeInsert(d.b, h, d.v)
    IN  Stored(ListInsertEndWrites(m, h, data))

\* remove that leaves the neighbours of node as they are
ListUnlink_Not(m, node) == Ok(m, 0)

\* LinkedList::remove, the neighbours of node linked to each other
ListUnlink(m, node) ==
    IF node.prev_ptr # 0
    THEN LET Prev(p) ==
                 IF p.st # "ok" THEN Raise(p)
                 ELSE IF node.next_ptr # 0
                 THEN LET Next(n) ==
                              IF n.st # "ok" THEN Raise(n)
                              ELSE LET Back(s) ==
                                           IF s.st # "ok" THEN Raise(s)
                                           ELSE NodeSetNext(s.b, p.v, s.v)
                                   IN  Back(NodeSetPrev(n.b, n.v, p.v))
                      IN  Next(NodeLoad(m, node.next_ptr))
                 ELSE NodeSetNextEmpty(m, p.v)
         IN  Prev(NodeLoad(m, node.prev_ptr))
    ELSE IF node.next_ptr # 0
    THEN LET Next(n) ==
                 IF n.st # "ok" THEN Raise(n) ELSE NodeSetPrevEmpty(n.b, n.v)
         IN  Next(NodeLoad(m, node.next_ptr))
    ELSE Ok(m, 0)

\* old_node.next(..)?.unwrap_or(Node::new(0)).start() and its mirror image:
\* the position recorded in the node at ptr, 0 when ptr is 0
NeighbourStart(m, ptr) ==
    IF ptr = 0 THEN Ok(m, 0)
    ELSE LET Then(n) == IF n.st # "ok" THEN Raise(n) ELSE Ok(m, n.v.position)
         IN  Then(NodeLoad(m, ptr))

\* LinkedList::finalize_removal from dec_counter on
FinalizeRemovalSave(m, h) ==
    LET Saved(s) == Ret(s.st, s.b, h, None)
    IN  Saved(ListHeaderSave(m, h))

\* finalize_removal from is_last on that leaves last_node_ptr as it is
FinalizeRemovalLast_KeepLast(m, h, old_node) ==
    FinalizeRemovalSave(
        m,
        IncUnusedBytes([h EXCEPT !.element_count = @ - 1],
                       NodeSize + old_node.data_size))

\* LinkedList::finalize_removal from is_last on
FinalizeRemovalLast(m, h, old_node) ==
    LET Last(l) ==
            IF l.st # "ok" THEN Failed(l, h)
            ELSE FinalizeRemovalSave(
                     m,
                     IncUnusedBytes(
                         [h EXCEPT !.last_node_ptr = l.v, !.element_count = @ - 1],
                         NodeSize + old_node.data_size))
    IN  Last(IF old_node.next_ptr = 0 THEN NeighbourStart(m, old_node.prev_ptr)
             ELSE Ok(m, h.last_node_ptr))

\* finalize_removal that leaves first_node_ptr as it is
FinalizeRemoval_KeepFirst(m, h, old_node) == FinalizeRemovalLast(m, h, old_node)

\* LinkedList::finalize_removal
FinalizeRemoval(m, h, old_node) ==
    LET First(f) ==
            IF f.st # "ok" THEN Failed(f, h)
            ELSE FinalizeRemovalLast(m, [h EXCEPT !.first_node_ptr = f.v], old_node)
    IN  First(IF old_node.prev_ptr = 0 THEN NeighbourStart(m, old_node.next_ptr)
              ELSE Ok(m, h.first_node_ptr))

\* LinkedList::remove
ListRemove(m, h, node) ==
    LET Unlinked(u) ==
            IF u.st # "ok" THEN Failed(u, h) ELSE FinalizeRemoval(u.b, h, node)
    IN  Unlinked(ListUnlink(m, node))

\* LinkedList::get_node_data
GetNodeData(m, node) == DataFetch(m, node)

\* the nodes LinkedListIterator::next yields from current_node_ptr = Some(ptr)
\* on, after acc; a chain that leads back into itself never ends ("hang")
RECURSIVE IterNodes(_, _, _, _)
IterNodes(m, ptr, acc, visited) ==
    IF ptr \in visited THEN [st |-> "hang", b |-> m, v |-> acc]
    ELSE LET Cur(c) ==
                 IF c.st # "ok" THEN [st |-> c.st, b |-> m, v |-> acc]
                 ELSE IF c.v.next_ptr = 0 THEN Ok(m, Append(acc, c.v))
                 ELSE LET Nxt(n) ==
                              IF n.st # "ok" THEN [st |-> n.st, b |-> m, v |-> acc]
                              ELSE IterNodes(m, n.v.position, Append(acc, c.v),
                                             visited \cup {ptr})
                      IN  Nxt(NodeLoad(m, c.v.next_ptr))
         IN  Cur(NodeLoad(m, ptr))

\* LinkedList::iter, collected: the iterator starts at the position recorded
\* in the node that first_node() decodes
ListIter(m, h) ==
    LET First(f) ==
            IF f.st # "ok" THEN [st |-> f.st, b |-> m, v |-> <<>>]
            ELSE IterNodes(m, f.v[1].position, <<>>, {})
    IN  First(ListFirstNode(m, h))

\* what a compact call hands back: its status, and the file at
\* path + ".tmp" as the call left it
CompactRet(st, new_list) ==
    [st |-> st, v |-> None,
     sibling |-> [size |-> new_list.size, mapped_file |-> new_list.mapped_file]]

\* LinkedList::compact, the body of the for loop from nodes[i] on; st is how
\* the iteration over self ended
RECURSIVE CompactCopy(_, _, _, _, _, _)
CompactCopy(m, nodes, i, st, new_b, new_h) ==
    IF i > Len(nodes) THEN CompactRet(st, new_b)
    ELSE LET Fetched(d) ==
                 IF d.st # "ok" THEN CompactRet(d.st, new_b)
                 ELSE LET Inserted(r) ==
                              IF r.st # "ok" THEN CompactRet(r.st, r.b)
                              ELSE CompactCopy(m, nodes, i + 1, st, r.b, r.h)
                      IN  Inserted(ListInsertEnd(new_b, new_h, d.v))
         IN  Fetched(GetNodeData(m, nodes[i]))

\* LinkedList::compact: a list is opened at path + ".tmp" and the payloads
\* of self are appended to it; self and its file are left as they are
ListCompact(m, h, tmp) ==
    LET Opened(new_list) ==
            IF new_list.st # "ok" THEN CompactRet(new_list.st, new_list.b)
            ELSE LET Nodes(it) ==
                         CompactCopy(m, it.v, 1, it.st, new_list.b, new_list.h)
                 IN  Nodes(ListIter(m, h))
    IN  Opened(ListNew(tmp.mapped_file, tmp.size))

\* the payloads of the nodes iter() yields, in order
RECURSIVE NodePayloads(_, _, _)
NodePayloads(m, nodes, i) ==
    IF i > Len(nodes) THEN <<>>
    ELSE LET Then(d) ==
                 <<IF d.st = "ok" THEN Some(d.v) ELSE None>>
                     \o NodePayloads(m, nodes, i + 1)
         IN  Then(GetNodeData(m, nodes[i]))

ListPayloads(m, h) ==
    LET Then(it) == [st |-> it.st, v |-> NodePayloads(m, it.v, 1)]
    IN  Then(ListIter(m, h))

\* the nodes reached from the node at ptr by Node::next (forward) or
\* Node::prev (backward), a pointer of 0 ending the walk; ok is FALSE when
\* a pointer leads outside the mapping or back into the walk
RECURSIVE WalkNodes(_, _, _, _, _)
WalkNodes(m, ptr, forward, acc, visited) ==
    IF ptr = 0 THEN [ok |-> TRUE, nodes |-> acc]
    ELSE IF ptr \in visited THEN [ok |-> FALSE, nodes |-> acc]
    ELSE LET Then(n) ==
                 IF n.st # "ok" THEN [ok |-> FALSE, nodes |-> acc]
                 ELSE WalkNodes(m, IF forward THEN n.v.next_ptr ELSE n.v.prev_ptr,
                                forward, Append(acc, n.v), visited \cup {ptr})
         IN  Then(NodeLoad(m, ptr))

\* Database::wasted_file_space: unused_bytes / allocator cursor (0 when the
\* cursor is 0), as the fraction <<numerator, denominator>>
WastedFileSpace(h) ==
    IF ListAllocatedBytes(h) = 0 THEN <<0, 1>>
    ELSE <<GetUnusedBytes(h), ListAllocatedBytes(h)>>

----------------------------------------------------------------------------
(* SpecList: one LinkedList<u8> on a fresh file, driven by any sequence of  *)
(* insertions (at either end, or next to a node the iterator yields),      *)
(* removals of a node the iterator yields, compactions and reopenings.     *)
(* A node handed to a call is the node as the file holds it at that time.  *)
(*                                                                         *)
(* shadow is the caller's book-keeping: calls, the number of calls made;   *)
(* len_before and payloads_before, what count() and the iteration gave     *)
(* right before the last call when that call was compact(); items, the     *)
(* payloads of an abstract list the same calls were applied to.            *)

\* the abstract list: x placed at index k, and the element at index k
\* taken out
InsertAt(items, k, x) ==
    SubSeq(items, 1, k - 1) \o <<x>> \o SubSeq(items, k, Len(items))
RemoveAt(items, k) ==
    SubSeq(items, 1, k - 1) \o SubSeq(items, k + 1, Len(items))

\* the payloads the list is driven with
ListValues == {1, 2}

InitList ==
    LET r == ListNew(<<>>, 0)
    IN  /\ backend = r.b
        /\ header = r.h
        /\ lookup = <<>>
        /\ sibling = NoFile
        /\ result = Called("new", <<>>, r)
        /\ shadow = [kind |-> "list", calls |-> 0, len_before |-> 0,
                     payloads_before |-> <<>>, items |-> <<>>]

\* the calls a live handle accepts, within the bounds of the model
CanCallList ==
    /\ CanCall("list")
    /\ shadow.calls < MaxCalls

\* the caller's book-keeping after a call other than compact()
ListCalled == [shadow EXCEPT !.calls = @ + 1, !.len_before = 0,
                             !.payloads_before = <<>>]

InsertStart(data) ==
    /\ CanCallList
    /\ ListCount(header) < MaxLen
    /\ \E r \in {ListInsertStart(backend, header, data)} :
           /\ backend' = r.b
           /\ header' = r.h
           /\ result' = Called("insert_start", <<data>>, r)
    /\ shadow' = [ListCalled EXCEPT !.items = <<data>> \o @]
    /\ UNCHANGED <<lookup, sibling>>

InsertEnd(data) ==
    /\ CanCallList
    /\ ListCount(header) < MaxLen
    /\ \E r \in {ListInsertEnd(backend, header, data)} :
           /\ backend' = r.b
           /\ header' = r.h
           /\ result' = Called("insert_end", <<data>>, r)
    /\ shadow' = [ListCalled EXCEPT !.items = Append(@, data)]
    /\ UNCHANGED <<lookup, sibling>>

\* insert_before(node, data) for the k-th node the iterator yields
InsertBefore(k, data) ==
    /\ CanCallList
    /\ ListCount(header) < MaxLen
    /\ k \in 1..ListCount(header)
    /\ ListIter(backend, header).st = "ok"
    /\ k <= Len(ListIter(backend, header).v)
    /\ \E node \in {ListIter(backend, header).v[k]} :
           \E r \in {ListInsertBefore(backend, header, node, data)} :
               /\ backend' = r.b
               /\ header' = r.h
               /\ result' = Called("insert_before", <<k, data>>, r)
    /\ shadow' = [ListCalled EXCEPT !.items = InsertAt(@, k, data)]
    /\ UNCHANGED <<lookup, sibling>>

\* insert_after(node, data) for the k-th node the iterator yields
InsertAfter(k, data) ==
    /\ CanCallList
    /\ ListCount(header) < MaxLen
    /\ k \in 1..ListCount(header)
    /\ ListIter(backend, header).st = "ok"
    /\ k <= Len(ListIter(backend, header).v)
    /\ \E node \in {ListIter(backend, header).v[k]} :
           \E r \in {ListInsertAfter(backend, header, node, data)} :
               /\ backend' = r.b
               /\ header' = r.h
               /\ result' = Called("insert_after", <<k, data>>, r)
    /\ shadow' = [ListCalled EXCEPT !.items = InsertAt(@, k + 1, data)]
    /\ UNCHANGED <<lookup, sibling>>

\* remove(node) for the k-th node the iterator yields
RemoveNode(k) ==
    /\ CanCallList
    /\ k \in 1..ListCount(header)
    /\ ListIter(backend, header).st = "ok"
    /\ k <= Len(ListIter(backend, header).v)
    /\ \E r \in {ListRemove(backend, header, ListIter(backend, header).v[k])} :
           /\ backend' = r.b
           /\ header' = r.h
           /\ result' = Called("remove", <<k>>, r)
    /\ shadow' = [ListCalled EXCEPT !.items = RemoveAt(@, k)]
    /\ UNCHANGED <<lookup, sibling>>

Compact ==
    /\ CanCallList
    /\ \E r \in {ListCompact(backend, header, sibling)} :
           /\ sibling' = r.sibling
           /\ result' = Called("compact", <<>>, r)
    /\ shadow' = [shadow EXCEPT !.calls = @ + 1,
                                !.len_before = ListCount(header),
                                !.payloads_before = ListPayloads(backend, header)]
    /\ UNCHANGED <<backend, header, lookup>>

\* the handle is dropped and the list opened again on the same file
ReopenList ==
    /\ shadow.kind = "list"
    /\ result.st # "panic"
    /\ shadow.calls < MaxCalls
    /\ \E r \in {ListNew(backend.mapped_file, backend.size)} :
           /\ backend' = r.b
           /\ header' = r.h
           /\ result' = Called("reopen", <<>>, r)
    /\ shadow' = ListCalled
    /\ UNCHANGED <<lookup, sibling>>

NextList ==
    \/ \E data \in ListValues : InsertStart(data)
    \/ \E data \in ListValues : InsertEnd(data)
    \/ \E k \in 1..MaxLen : \E data \in ListValues : InsertBefore(k, data)
    \/ \E k \in 1..MaxLen : \E data \in ListValues : InsertAfter(k, data)
    \/ \E k \in 1..MaxLen : RemoveNode(k)
    \/ Compact
    \/ ReopenList

SpecList == InitList /\ [][NextList]_vars

----------------------------------------------------------------------------
(* Claims about the linked list.                                           *)

\* the chain of next_ptr from first_node and the chain of prev_ptr from
\* last_node
ForwardChain == WalkNodes(backend, header.first_node_ptr, TRUE, <<>>, {})
BackwardChain == WalkNodes(backend, header.last_node_ptr, FALSE, <<>>, {})

\* C12: after any linked-list operation (insert_start, insert_end,
\* insert_before, insert_after, remove), element_count equals the number of
\* nodes reached by following next_ptr from first_node, and equals the
\* number of nodes reached by following prev_ptr from last_node.
C12_CountMatchesChains ==
    (shadow.kind = "list" /\ result.st = "ok") =>
        /\ ForwardChain.ok
        /\ Len(ForwardChain.nodes) = header.element_count
        /\ BackwardChain.ok
        /\ Len(BackwardChain.nodes) = header.element_count

\* a node was inserted in the middle of a list that a removal left a hole in
C12_Witness ==
    /\ shadow.kind = "list"
    /\ result.op = "insert_after" /\ result.st = "ok"
    /\ result.v.next_ptr # 0
    /\ header.element_count = 3
    /\ header.unused_bytes > 0

\* C8: after compact() returns successfully on a list with any history of
\* insertions and removals, wasted_file_space() is 0 (unused_bytes is 0),
\* len is what it was before the call, and iterating the list yields the
\* same payloads in the same order as before the call.
C8_CompactReclaims ==
    (shadow.kind = "list" /\ result.op = "compact" /\ result.st = "ok") =>
        /\ WastedFileSpace(header)[1] = 0
        /\ GetUnusedBytes(header) = 0
        /\ ListCount(header) = shadow.len_before
        /\ ListPayloads(backend, header) = shadow.payloads_before

\* C13: in the list header, after any sequence of list operations,
\* first_node = 0 if and only if last_node = 0 if and only if
\* element_count = 0.
C13_EmptyIffNoEnds ==
    (shadow.kind = "list" /\ result.st = "ok") =>
        /\ (header.first_node_ptr = 0) <=> (header.element_count = 0)
        /\ (header.last_node_ptr = 0) <=> (header.element_count = 0)

\* a list that held two nodes is empty again
C13_Witness ==
    /\ shadow.kind = "list"
    /\ result.op = "remove" /\ result.st = "ok"
    /\ header.element_count = 0
    /\ header.unused_bytes >= 2 * (NodeSize + 1)

\* C14: for every node linked in the list, after any list operation:
\* next_ptr = 0 iff it is the last node, prev_ptr = 0 iff it is the first
\* node, if prev_ptr # 0 the node at prev_ptr has next_ptr equal to this
\* node's position, and if next_ptr # 0 the node at next_ptr has prev_ptr
\* equal to this node's position.
C14_NodesDoublyLinked ==
    (shadow.kind = "list" /\ result.st = "ok") =>
        \A i \in 1..Len(ForwardChain.nodes) :
            /\ (ForwardChain.nodes[i].next_ptr = 0)
                   <=> (ForwardChain.nodes[i].position = header.last_node_ptr)
            /\ (ForwardChain.nodes[i].prev_ptr = 0)
                   <=> (ForwardChain.nodes[i].position = header.first_node_ptr)
            /\ ForwardChain.nodes[i].prev_ptr # 0 =>
                   /\ NodeLoad(backend, ForwardChain.nodes[i].prev_ptr).st = "ok"
                   /\ NodeLoad(backend, ForwardChain.nodes[i].prev_ptr).v.next_ptr
                          = ForwardChain.nodes[i].position
            /\ ForwardChain.nodes[i].next_ptr # 0 =>
                   /\ NodeLoad(backend, ForwardChain.nodes[i].next_ptr).st = "ok"
                   /\ NodeLoad(backend, ForwardChain.nodes[i].next_ptr).v.prev_ptr
                          = ForwardChain.nodes[i].position

\* the middle node of a three-node list was removed
C14_Witness ==
    /\ shadow.kind = "list"
    /\ result.op = "remove" /\ result.arg = <<2>> /\ result.st = "ok"
    /\ header.element_count = 2
    /\ Len(ForwardChain.nodes) = 2

\* the list header as the file holds it
StoredListHeader == DecodeListHeader(Slice(backend.mapped_file, 0, ListHeaderSize))

\* C15: removing the sole element of a list sets first_node = 0,
\* last_node = 0 and element_count = 0 in the list header.
C15_SoleRemoveResets ==
    [][(/\ shadow.kind = "list"
        /\ header.element_count = 1
        /\ result'.op = "remove" /\ result'.st = "ok"
        /\ shadow'.calls = shadow.calls + 1)
       => /\ header'.first_node_ptr = 0
          /\ header'.last_node_ptr = 0
          /\ header'.element_count = 0
          /\ StoredListHeader' = header']_vars

\* the only node the list ever held was removed
C15_Witness ==
    /\ shadow.kind = "list"
    /\ result.op = "remove" /\ result.st = "ok"
    /\ header.element_count = 0
    /\ header.unused_bytes = NodeSize + 1
    /\ header.allocate_ptr = ListHeaderSize + NodeSize + 1

\* C16: after any sequence of list operations, closing and reopening the
\* list included, unused_bytes <= allocator cursor, so that
\* wasted_file_space() lies in [0, 1] and used_bytes does not underflow.
C16_UnusedWithinAllocated ==
    (shadow.kind = "list" /\ result.st = "ok") =>
        /\ GetUnusedBytes(header) <= ListAllocatedBytes(header)
        /\ WastedFileSpace(header)[1] <= WastedFileSpace(header)[2]
        /\ ListUsedBytes(header) >= 0

\* the payloads read by following next_ptr from first_node
ForwardPayloads == NodePayloads(backend, ForwardChain.nodes, 1)

\* C31: after any sequence of insert_start, insert_end, insert_before,
\* insert_after and remove on the linked list, the payloads read by
\* following next_ptr from first_node equal the reference sequence obtained
\* by applying the same operations to an abstract list: insert_start
\* prepends, insert_end appends, insert_before / insert_after place the new
\* payload immediately before / after the given node, and remove deletes
\* exactly the given node and keeps the order and payloads of all others.
C31_ListRefinesSequence ==
    shadow.kind = "list" =>
        /\ result.st = "ok"
        /\ ForwardChain.ok
        /\ ForwardPayloads = [i \in 1..Len(shadow.items) |-> Some(shadow.items[i])]

\* a node was removed from between two others after an insertion next to a
\* node
C31_Witness ==
    /\ shadow.kind = "list"
    /\ result.op = "remove" /\ result.arg = <<2>>
    /\ shadow.items = <<1, 2>>

\* C32: first_node() returns none when the header's first_node pointer is
\* 0 and last_node() returns none when the last_node pointer is 0; on an
\* empty list neither returns a node.
C32_NoEndsOnEmptyList ==
    shadow.kind = "list" =>
        /\ header.first_node_ptr = 0 =>
               ListFirstNode(backend, header) = Ok(backend, None)
        /\ header.last_node_ptr = 0 =>
               ListLastNode(backend, header) = Ok(backend, None)

\* C33: iter() on a list yields exactly count() nodes, starting at
\* first_node and following next_ptr until 0, in list order, and then ends;
\* on an empty list it yields no node.
C33_IterYieldsCountNodes ==
    shadow.kind = "list" =>
        /\ ListIter(backend, header).st = "ok"
        /\ Len(ListIter(backend, header).v) = ListCount(header)
        /\ ListIter(backend, header).v = ForwardChain.nodes

\* the insertions of the list
ListInsertions == {"insert_start", "insert_end", "insert_before", "insert_after"}

\* C34: remove(node) increases unused_bytes by exactly size_of(node prefix)
\* + node.data_size, decrements element_count by one and leaves
\* allocator_cursor unchanged; insertions leave unused_bytes unchanged, so
\* wasted_file_space() = 0 as long as no removal has happened and is > 0
\* after any removal until compaction.
C34_RemoveCountsUnusedBytes ==
    [][shadow.kind = "list" =>
          /\ (result'.op = "remove" /\ result'.st = "ok") =>
                 /\ GetUnusedBytes(header') = GetUnusedBytes(header) + NodeSize
                        + ListIter(backend, header).v[result'.arg[1]].data_size
                 /\ ListCount(header') = ListCount(header) - 1
                 /\ ListAllocatedBytes(header') = ListAllocatedBytes(header)
                 /\ WastedFileSpace(header')[1] > 0
          /\ result'.op \in ListInsertions =>
                 GetUnusedBytes(header') = GetUnusedBytes(header)
          /\ (WastedFileSpace(header)[1] = 0 /\ result'.op # "remove") =>
                 WastedFileSpace(header')[1] = 0
          /\ (WastedFileSpace(header)[1] > 0 /\ result'.op # "compact") =>
                 WastedFileSpace(header')[1] > 0]_vars

\* a node with its payload was removed from a list of two
C34_Witness ==
    /\ shadow.kind = "list"
    /\ result.op = "remove" /\ result.st = "ok"
    /\ ListCount(header) = 1
    /\ GetUnusedBytes(header) = NodeSize + 1

\* C35: the list-header's allocator_cursor never decreases over any
\* sequence of list operations and reopenings, and after every insertion it
\* is >= position + node_prefix_size + data_size of every node created so
\* far.
C35_AllocatorNeverDecreases ==
    [][shadow.kind = "list" =>
          /\ ListAllocatedBytes(header') >= ListAllocatedBytes(header)
          /\ result'.op \in ListInsertions =>
                 \A i \in 1..Len(ListIter(backend', header').v) :
                     ListAllocatedBytes(header')
                         >= ListIter(backend', header').v[i].position + NodeSize
                                + ListIter(backend', header').v[i].data_size]_vars

\* the bytes of the list header as the file holds them
HeaderBytes(m) == Slice(m.mapped_file, 0, ListHeaderSize)

\* C36: during every list insertion (into an empty or a non-empty list) the
\* persisted list-header bytes at offset 0 are written only in
\* finalization, after all node-prefix and payload writes; if the insertion
\* fails before finalization, the on-disk list-header is exactly what it
\* was before the call.
C36_HeaderWrittenLast ==
    (shadow.kind = "list" /\ result.st = "ok") =>
        \A data \in ListValues :
            /\ HeaderBytes(ListInsertStartWrites(backend, header, data).b)
                   = HeaderBytes(backend)
            /\ HeaderBytes(ListInsertEndWrites(backend, header, data).b)
                   = HeaderBytes(backend)

----------------------------------------------------------------------------
(* model/stack: the stack stored in an Mmap.  A header of two usize at     *)
(* offset 0, then the elements: a prefix of three usize (position, prev,   *)
(* data_size) with the payload behind it.  The payload type T is u8.       *)

\* std::mem::size_of::<Header>() of model/stack/header.rs
ModelStackHeaderSize == 2 * 8
\* std::mem::size_of::<Element<T>>(): three usize and a PhantomData
ElementSize == 3 * 8

\* StaticBlock::load for the stack's Header
ModelStackHeaderLoad(m) ==
    LET Then(r) ==
            IF r.st # "ok" THEN Raise(r)
            ELSE Ok(m, [current_next_element |-> DecodeU64(r.v, 1),
                        element_count |-> DecodeU64(r.v, 9)])
    IN  Then(MmapRead(m, 0, ModelStackHeaderSize))

\* StaticBlock::save for the stack's Header
ModelStackHeaderSave(m, h) ==
    MmapWrite(m, 0, ModelStackHeaderSize,
              EncodeU64(h.current_next_element) \o EncodeU64(h.element_count),
              "none")

\* Element::new
ElementNew(position) == [position |-> position, prev |-> 0, data_size |-> 0]

\* StaticBlock::load for Element
ElementLoad(m, start) ==
    LET Then(r) ==
            IF r.st # "ok" THEN Raise(r)
            ELSE Ok(m, [position |-> DecodeU64(r.v, 1), prev |-> DecodeU64(r.v, 9),
                        data_size |-> DecodeU64(r.v, 17)])
    IN  Then(MmapRead(m, start, start + ElementSize))

\* StaticBlock::save for Element; hands back the element saved
ElementSave(m, e) ==
    LET Then(r) == IF r.st # "ok" THEN Raise(r) ELSE Ok(r.b, e)
    IN  Then(MmapWrite(m, e.position, e.position + ElementSize,
                       EncodeU64(e.position) \o EncodeU64(e.prev)
                           \o EncodeU64(e.data_size), "none"))

\* DataBlock::data_store for Element
ElementDataStore(m, e, data) ==
    LET Saved(s) ==
            IF s.st # "ok" THEN Raise(s)
            ELSE LET Written(w) == IF w.st # "ok" THEN Raise(w) ELSE Ok(w.b, s.v)
                 IN  Written(MmapWrite(s.b, s.v.position + ElementSize,
                                       s.v.position + ElementSize + s.v.data_size,
                                       EncodeData(data), "none"))
    IN  Saved(ElementSave(m, [e EXCEPT !.data_size = Len(EncodeData(data))]))

\* DataBlock::data_fetch for Element
ElementDataFetch(m, e) ==
    LET Then(r) ==
            IF r.st # "ok" THEN Raise(r)
            ELSE IF Len(r.v) < 1 THEN Err(m)
            ELSE Ok(m, r.v[1])
    IN  Then(MmapRead(m, e.position + ElementSize,
                      e.position + ElementSize + e.data_size))

\* Stack::new on a file that holds mapped_file and has length file_len
ModelStackNew(mf, file_len) ==
    LET Loaded(r) ==
            IF r.st # "ok"
            THEN Failed(r, [current_next_element |-> 0, element_count |-> 0])
            ELSE LET Saved(s) == Ret(s.st, s.b, r.v, None)
                 IN  Saved(ModelStackHeaderSave(r.b, r.v))
    IN  Loaded(ModelStackHeaderLoad(MmapNew(mf, file_len)))

\* Stack::push: the element is stored, then saved with its prev pointer;
\* the header changes in memory only
ModelStackPush(m, h, data) ==
    LET Stored(s, prev) ==
            IF s.st # "ok" THEN Failed(s, h)
            ELSE LET Saved(e) ==
                         IF e.st # "ok" THEN Failed(e, h)
                         ELSE Ret("ok", e.b,
                                  [h EXCEPT !.current_next_element = e.v.position,
                                            !.element_count = @ + 1],
                                  None)
                 IN  Saved(ElementSave(s.b, [s.v EXCEPT !.prev = prev]))
        Current(c) ==
            IF c.st # "ok" THEN Failed(c, h)
            ELSE Stored(ElementDataStore(m, ElementNew(c.v.position + ElementSize),
                                         data),
                        c.v.position)
    IN  IF h.element_count = 0
        THEN Stored(ElementDataStore(m, ElementNew(ModelStackHeaderSize), data), 0)
        ELSE Current(ElementLoad(m, h.current_next_element))

\* Stack::pop
ModelStackPop(m, h) ==
    LET Popped(c, h1) ==
            LET Saved(s) ==
                    IF s.st # "ok" THEN Failed(s, h1)
                    ELSE LET Fetched(d) ==
                                 IF d.st # "ok" THEN Failed(d, h1)
                                 ELSE Ret("ok", d.b, h1, Some(d.v))
                         IN  Fetched(ElementDataFetch(s.b, c.v))
            IN  Saved(ModelStackHeaderSave(m, h1))
        Current(c) ==
            IF c.st # "ok" THEN Failed(c, h)
            ELSE Popped(c, [h EXCEPT !.current_next_element = c.v.prev,
                                     !.element_count = @ - 1])
    IN  IF h.element_count = 0 THEN Ret("ok", m, h, None)
        ELSE Current(ElementLoad(m, h.current_next_element))

----------------------------------------------------------------------------
(* SpecModelStack: one model Stack<u8> on a fresh file, driven by any       *)
(* sequence of push and pop calls.                                         *)
(*                                                                         *)
(* shadow is the caller's book-keeping: calls, the number of calls made;   *)
(* items, the payloads pushed and not yet popped, the oldest first.        *)

InitModelStack ==
    \E r \in {ModelStackNew(<<>>, 0)} :
        /\ backend = r.b
        /\ header = r.h
        /\ lookup = <<>>
        /\ sibling = NoFile
        /\ result = Called("new", <<>>, r)
        /\ shadow = [kind |-> "modelstack", calls |-> 0, items |-> <<>>]

ModelPush(data) ==
    /\ CanCall("modelstack")
    /\ shadow.calls < MaxCalls
    /\ header.element_count < MaxLen
    /\ \E r \in {ModelStackPush(backend, header, data)} :
           /\ backend' = r.b
           /\ header' = r.h
           /\ result' = Called("push", <<data>>, r)
    /\ shadow' = [shadow EXCEPT !.calls = @ + 1, !.items = Append(@, data)]
    /\ UNCHANGED <<lookup, sibling>>

ModelPop ==
    /\ CanCall("modelstack")
    /\ shadow.calls < MaxCalls
    /\ \E r \in {ModelStackPop(backend, header)} :
           /\ backend' = r.b
           /\ header' = r.h
           /\ result' = Called("pop", <<>>, r)
    /\ shadow' = [shadow EXCEPT !.calls = @ + 1,
                                !.items = SubSeq(@, 1, Len(@) - 1)]
    /\ UNCHANGED <<lookup, sibling>>

NextModelStack ==
    \/ \E data \in ListValues : ModelPush(data)
    \/ ModelPop

SpecModelStack == InitModelStack /\ [][NextModelStack]_vars

RECURSIVE LiveElements(_, _, _, _)
\* the n elements reached from the element at ptr by prev, the newest first
LiveElements(m, ptr, n, acc) ==
    IF n = 0 THEN acc
    ELSE LET Then(e) ==
                 IF e.st # "ok" THEN acc
                 ELSE LiveElements(m, e.v.prev, n - 1, Append(acc, e.v))
         IN  Then(ElementLoad(m, ptr))

\* the byte ranges [position, position + prefix + data_size) of the blocks
\* are pairwise disjoint and lie behind the header
RangesDisjoint(blocks, prefix, header_size) ==
    /\ \A i \in DOMAIN blocks : blocks[i].position >= header_size
    /\ \A i \in DOMAIN blocks : \A j \in DOMAIN blocks :
           i < j =>
               \/ blocks[i].position + prefix + blocks[i].data_size
                      <= blocks[j].position
               \/ blocks[j].position + prefix + blocks[j].data_size
                      <= blocks[i].position

\* C37: in the Mmap-backed containers (LinkedList nodes and the elements of
\* the model Stack), the byte ranges [position, position + prefix size +
\* data_size) of all live elements are pairwise disjoint and disjoint from
\* the header at offset 0, so storing one element never overwrites the
\* prefix or payload of another and a later read of any live element
\* returns the payload that was stored.
C37_LiveRangesDisjoint ==
    /\ shadow.kind = "list" =>
           /\ RangesDisjoint(ForwardChain.nodes, NodeSize, ListHeaderSize)
           /\ ForwardPayloads
                  = [i \in 1..Len(shadow.items) |-> Some(shadow.items[i])]
    /\ (shadow.kind = "modelstack" /\ result.st = "ok") =>
           LET live == LiveElements(backend, header.current_next_element,
                                    header.element_count, <<>>)
           IN  /\ Len(live) = Len(shadow.items)
               /\ RangesDisjoint(live, ElementSize, ModelStackHeaderSize)
               /\ \A i \in DOMAIN live :
                      ElementDataFetch(backend, live[i])
                          = Ok(backend, shadow.items[Len(live) + 1 - i])

\* the key entries stored in the records key_indices names, in order
KeyEntries(b, key_indices) ==
    [i \in 1..Len(key_indices) |->
        LET Then(bytes) ==
                IF bytes.st # "ok" THEN [st |-> bytes.st]
                ELSE DecodeKeyEntry(bytes.v)
        IN  Then(StoreRead(b, key_indices[i]))]

\* the header as record 0 of the store holds it
PersistedKvHeader(b) ==
    LET Then(bytes) ==
            IF bytes.st # "ok" THEN [st |-> bytes.st]
            ELSE DecodeKvHeader(bytes.v)
    IN  Then(StoreRead(b, 0))

\* C38: after every KeyValue operation the in-memory lookup and the
\* persisted header agree: header.key_indices holds exactly one live
\* key-entry record for each key of lookup and no key twice, and each
\* entry's value_index equals lookup[key] and is the head of a live value
\* record that is distinct from every key-entry record and from the header
\* record at index 0.
C38_LookupAgreesWithHeader ==
    (shadow.kind = "kv" /\ result.st = "ok") =>
        LET stored == PersistedKvHeader(backend)
            entries == KeyEntries(backend, header.key_indices)
            indices == {header.key_indices[i] : i \in DOMAIN header.key_indices}
        IN  /\ stored.st = "ok"
            /\ stored.key_indices = header.key_indices
            /\ Len(header.key_indices) = Cardinality(DOMAIN lookup)
            /\ \A i \in DOMAIN entries :
                   /\ LiveRecord(backend, header.key_indices[i])
                   /\ header.key_indices[i] # 0
                   /\ entries[i].st = "ok"
                   /\ entries[i].body \in DOMAIN lookup
                   /\ entries[i].value_index = lookup[entries[i].body]
                   /\ LiveRecord(backend, entries[i].value_index)
                   /\ entries[i].value_index # 0
                   /\ entries[i].value_index \notin indices
                   /\ \A j \in DOMAIN entries :
                          (j # i /\ entries[j].st = "ok")
                              => entries[j].body # entries[i].body
            /\ \A key \in DOMAIN lookup :
                   \E i \in DOMAIN entries :
                       entries[i].st = "ok" /\ entries[i].body = key

----------------------------------------------------------------------------
(* block_storage/backend/allocation.rs: the list of deleted frames headed  *)
(* by header.first_free_frame.  The Header with that field is not among    *)
(* the sources (storage/header.rs has frame_count and version only); it is *)
(* taken from the specification: three u64, frame_count, first_free_frame, *)
(* version, at offset 0, the frames behind them.                           *)

FreeHeaderSize == 3 * 8

\* Header::update for the header with first_free_frame
FreeHeaderUpdate(b) ==
    [b EXCEPT !.mapped_file =
         WriteAll(@, 0, EncodeU64(b.header.frame_count)
                            \o EncodeU64(b.header.first_free_frame)
                            \o EncodeU64(b.header.version))]

\* mutant of UnlinkSplice: the frames behind the unlinked one are dropped
UnlinkSplice_Dropped(b, prev, frame) == UpdateFrame(b, [prev EXCEPT !.next = 0])

\* unlink_free_frame, the branch with a previous frame:
\* prev.next = frame.next; self.update_frame(prev)
UnlinkSplice(b, prev, frame) == UpdateFrame(b, [prev EXCEPT !.next = frame.next])

RECURSIVE UnlinkWalk(_, _, _, _)
\* the while loop of unlink_free_frame
UnlinkWalk(b, position, cursor, prev) ==
    IF cursor = 0 THEN Ok(b, position)
    ELSE LET Then(frame) ==
                 IF frame.st # "ok" THEN Raise(frame)
                 ELSE IF frame.v.position = position
                 THEN IF prev # None
                      THEN LET Spliced(w) ==
                                   IF w.st # "ok" THEN Raise(w) ELSE Ok(w.b, position)
                           IN  Spliced(UnlinkSplice(b, prev[1], frame.v))
                      ELSE Ok(FreeHeaderUpdate(
                                  [b EXCEPT !.header.first_free_frame = frame.v.next]),
                              position)
                 ELSE UnlinkWalk(b, position, frame.v.next, Some(frame.v))
         IN  Then(ReadFrame(b, cursor))

\* Backend::unlink_free_frame
UnlinkFreeFrame(b, position) ==
    UnlinkWalk(b, position, b.header.first_free_frame, None)

RECURSIVE FreeSequence(_, _, _)
\* the positions reached from cursor by following next, in order
FreeSequence(b, cursor, acc) ==
    IF cursor = 0 \/ \E i \in DOMAIN acc : acc[i] = cursor THEN acc
    ELSE LET Then(frame) ==
                 IF frame.st # "ok" THEN Append(acc, cursor)
                 ELSE FreeSequence(b, frame.v.next, Append(acc, cursor))
         IN  Then(ReadFrame(b, cursor))

----------------------------------------------------------------------------
(* SpecFreeList: unlink_free_frame applied to the files a storage with     *)
(* MaxFrames frames can hold: any of the frames deleted and linked into    *)
(* the free list in any order, the others live.                            *)

FramePositions == {FreeHeaderSize + i * FRAME_SIZE : i \in 0..(MaxFrames - 1)}

\* the free lists: the sequences of distinct frame positions
FreeLists ==
    {list \in UNION {[1..n -> FramePositions] : n \in 0..MaxFrames} :
        \A i \in DOMAIN list : \A j \in DOMAIN list : i # j => list[i] # list[j]}

RECURSIVE FreeListFile(_, _, _)
\* the file with the frames from index i on written: a frame of the list
\* is deleted and points at the list's next, the others are live
FreeListFile(mf, list, i) ==
    IF i >= MaxFrames THEN mf
    ELSE LET position == FreeHeaderSize + i * FRAME_SIZE
             at == {k \in DOMAIN list : list[k] = position}
             next == IF at = {} THEN 0
                     ELSE LET k == CHOOSE k \in at : TRUE
                          IN  IF k < Len(list) THEN list[k + 1] ELSE 0
         IN  FreeListFile(
                 WriteAll(mf, position,
                          EncodeFrame([position |-> position, body_size |-> 0,
                                       deleted |-> at # {}, next |-> next])),
                 list, i + 1)

InitFreeList ==
    \E list \in FreeLists :
        \E b \in {FreeHeaderUpdate(
                     [size |-> 2 * PageSize,
                      mapped_file |-> FreeListFile(<<>>, list, 0),
                      header |-> [frame_count |-> MaxFrames,
                                  first_free_frame |->
                                      IF list = <<>> THEN 0 ELSE list[1],
                                  version |-> 1]])} :
            /\ backend = b
            /\ header = <<>>
            /\ lookup = <<>>
            /\ sibling = NoFile
            /\ result = Called("new", <<>>, Ok(b, 0))
            /\ shadow = [kind |-> "freelist", before |-> b]

Unlink(position) ==
    /\ CanCall("freelist")
    /\ \E r \in {UnlinkFreeFrame(backend, position)} :
           /\ backend' = r.b
           /\ result' = Called("unlink_free_frame", <<position>>, r)
    /\ shadow' = [shadow EXCEPT !.before = backend]
    /\ UNCHANGED <<header, lookup, sibling>>

NextFreeList == \E position \in FramePositions : Unlink(position)

SpecFreeList == InitFreeList /\ [][NextFreeList]_vars

\* the free list of b: the chain from first_free_frame
FreeListOf(b) == FreeSequence(b, b.header.first_free_frame, <<>>)

\* C39: unlink_free_frame(p), for a frame position p on the free-list,
\* removes p from the chain starting at first_free_frame while every other
\* free frame stays reachable in the same relative order; if p is not on
\* the free-list, the free-list and the header are unchanged.
C39_UnlinkSplicesOut ==
    (shadow.kind = "freelist" /\ result.op = "unlink_free_frame") =>
        LET p == result.arg[1]
            before == FreeListOf(shadow.before)
        IN  /\ result.st = "ok"
            /\ result.v = p
            /\ FreeListOf(backend) = SelectSeq(before, LAMBDA q : q # p)
            /\ Slice(backend.mapped_file, 0, FreeHeaderSize)
                   = EncodeU64(backend.header.frame_count)
                         \o EncodeU64(backend.header.first_free_frame)
                         \o EncodeU64(backend.header.version)
            /\ (\A i \in DOMAIN before : before[i] # p) => backend = shadow.before

\* a frame in the middle of a free list of three or more has been unlinked
C39_Witness ==
    /\ shadow.kind = "freelist"
    /\ result.op = "unlink_free_frame"
    /\ result.st = "ok"
    /\ Len(FreeListOf(shadow.before)) >= 3
    /\ FreeListOf(shadow.before)[2] = result.arg[1]
    /\ Len(FreeListOf(backend)) = Len(FreeListOf(shadow.before)) - 1

----------------------------------------------------------------------------
(* SpecOpen: a block-storage Backend or an Mmap opened on a backing file   *)
(* of any of FileLengths bytes (all zero), then grown by the calls that    *)
(* grow it: create on the storage, write on the Mmap.                      *)
(*                                                                         *)
(* shadow: variant, which of the two was opened; calls, the calls made;    *)
(* before, the mapped length before the last call.                         *)

\* an empty file, files shorter than a page or than 1 KiB, and larger ones
\* (Backend::new slices the 16 header bytes: a file of 1..15 bytes is left
\* out)
FileLengths == {0, 100, MmapMinSize, 2 * MmapMinSize, PageSize, 2 * PageSize}

\* the length of the mapping b holds
MappedLength(b) == IF "mapped_len" \in DOMAIN b THEN b.mapped_len ELSE b.size

\* the minimum length: page_size::get() in storage/file_mapping.rs,
\* min_size in backend/mmap.rs
MinimumSize(variant) == IF variant = "mmap" THEN MmapMinSize ELSE PageSize

InitOpen ==
    \E file_len \in FileLengths : \E variant \in {"block_storage", "mmap"} :
        \E b \in {IF variant = "mmap" THEN MmapNew(<<>>, file_len)
                                       ELSE BackendNew(<<>>, file_len)} :
            /\ backend = b
            /\ header = <<>>
            /\ lookup = <<>>
            /\ sibling = NoFile
            /\ result = Called("open", <<file_len>>, Ok(b, 0))
            /\ shadow = [kind |-> "open", variant |-> variant, calls |-> 0,
                         before |-> MappedLength(b)]

\* BlockStorage::create on the storage opened
OpenCreate(bytes) ==
    /\ CanCall("open")
    /\ shadow.variant = "block_storage"
    /\ shadow.calls < MaxCalls
    /\ \E r \in {StoreCreate(backend, bytes)} :
           /\ backend' = r.b
           /\ result' = Called("create", bytes, r)
    /\ shadow' = [shadow EXCEPT !.calls = @ + 1, !.before = MappedLength(backend)]
    /\ UNCHANGED <<header, lookup, sibling>>

\* Mmap::write of bytes at start, start being the first byte, the last
\* byte of the mapping or the byte behind it
OpenWrite(start, bytes) ==
    /\ CanCall("open")
    /\ shadow.variant = "mmap"
    /\ shadow.calls < MaxCalls
    /\ \E r \in {MmapWrite(backend, start, start + Len(bytes), bytes, "none")} :
           /\ backend' = r.b
           /\ result' = Called("write", <<start, bytes>>, r)
    /\ shadow' = [shadow EXCEPT !.calls = @ + 1, !.before = MappedLength(backend)]
    /\ UNCHANGED <<header, lookup, sibling>>

NextOpen ==
    \/ \E bytes \in Payloads : OpenCreate(bytes)
    \/ \E start \in {0, backend.size - 1, backend.size} :
           \E bytes \in {<<1>>, <<2, 1>>} : OpenWrite(start, bytes)

SpecOpen == InitOpen /\ [][NextOpen]_vars

\* C40: immediately after open, for every backing file (empty, non-empty
\* but shorter than the minimum, or larger), the mapped length is at least
\* the minimum size (one page, or 1 KiB when a page size is unavailable);
\* thereafter it changes only by doubling.
C40_MappedLengthMinimum ==
    shadow.kind = "open" =>
        /\ result.op = "open" =>
               MappedLength(backend) >= MinimumSize(shadow.variant)
        /\ (result.op # "open" /\ result.st = "ok") =>
               MappedLength(backend) \in {shadow.before, 2 * shadow.before}

====
